---------------------------- MODULE Spec2Model ----------------------------
(***************************************************************************)
(* Train traffic backend: the optimize pipeline (main.py), the schedule    *)
(* optimizer get_optimized_schedule (scheduler.py) around the CP-SAT       *)
(* solver, the delay predictor and the metrics engine (ai_model.py).       *)
(*                                                                         *)
(* An HH:MM string is modelled by the pair <<hours, minutes>> it spells;   *)
(* time_to_minutes parses it and minutes_to_time formats it, wrapping at   *)
(* the day boundary as the code does.                                      *)
(***************************************************************************)
EXTENDS Integers, Sequences, FiniteSets, TLC

(***************************************************************************)
(* Bounds of the model.                                                    *)
(***************************************************************************)
\* longest request (number of trains) explored
MaxTrains == 3
\* MAX_PLATFORMS is read from the environment (config.py:19); the
\* configurations 1..MaxPlatformConfig are explored
MaxPlatformConfig == 2
\* extra idle minutes a non-optimal (FEASIBLE) solver answer may insert
\* before a train, beyond what the no-overlap constraint forces
MaxSlack == 0
\* half-width of the predictor's random adjustment around its mean
NoiseSpread == 0
\* trains in a request handed to validate_schedule_data on its own
MaxBatch == 2
\* requests the server handles in one run
MaxRequests == 3
\* trains of a request in the runs checked for termination
MaxTrainsTimed == 2
\* trains in a list given to compute_metrics
MaxMetricTrains == 2
\* runs of the optimizer on one request
MaxRuns == 2
\* the largest priority given to priority_weight
MaxPriority == 10
\* websockets that can connect, and broadcasts, in one run
MaxSubscribers == 3
MaxBroadcasts == 2
\* websockets connected while the server handles its requests
MaxListeners == 2

(***************************************************************************)
(* Program constants.                                                      *)
(***************************************************************************)
DWELL_MINUTES == 2
HORIZON_BUFFER == 180
DELAY_COST_WEIGHT == 10
PLATFORM_CHANGE_COST == 5
PRIORITY_K == 5
DayMinutes == 24 * 60
NOISE_MEAN == 5
PUNCTUAL_LIMIT == 5
MINOR_LIMIT == 15

\* the value raised by time_to_minutes on a malformed string
ValueError == -1
\* an absent time field (key not present in the dict)
NoTime == <<-1, -1>>

Max(S) == CHOOSE x \in S : \A y \in S : y <= x
Min(S) == CHOOSE x \in S : \A y \in S : x <= y

(***************************************************************************)
(* scheduler.py: time conversions                                          *)
(***************************************************************************)
time_to_minutes(t) ==
    IF t[1] < 0 \/ t[1] > 23 \/ t[2] < 0 \/ t[2] > 59
    THEN ValueError
    ELSE t[1] * 60 + t[2]

minutes_to_time(minutes) ==
    IF minutes < 0
    THEN <<0, 0>>
    ELSE LET m == minutes % DayMinutes
         IN  <<m \div 60, m % 60>>

(***************************************************************************)
(* models.py: Train.  A request train; status and delay_minutes carry the  *)
(* model's defaults until the predictor or the caller sets them.           *)
(***************************************************************************)
Train(id, arr, dep, prio, plat) ==
    [train_id |-> id, arrival |-> arr, departure |-> dep,
     priority |-> prio, platform |-> plat,
     status |-> "scheduled", delay_minutes |-> 0]

\* The shapes of train a request is drawn from (train_id is given by the
\* position in the request).
TrainPool ==
    { Train("", <<8, 0>>,   <<8, 5>>,   1, 1),
      Train("", <<8, 0>>,   <<8, 30>>,  1, 1),
      Train("", <<8, 3>>,   <<8, 8>>,   3, 1),
      Train("", <<8, 5>>,   <<8, 10>>,  3, 1),
      Train("", <<8, 5>>,   <<8, 10>>,  0, 1),
      Train("", <<8, 0>>,   <<8, 5>>,   3, 2),
      Train("", <<23, 50>>, <<23, 58>>, 1, 1),
      Train("", <<0, 0>>,   <<23, 59>>, 3, 1) }

TrainIds == <<"T1", "T2", "T3", "T4", "T5">>

Requests ==
    UNION { { [i \in 1..n |-> [s[i] EXCEPT !.train_id = TrainIds[i]]] :
                s \in [1..n -> TrainPool] } : n \in 0..MaxTrains }

(***************************************************************************)
(* models.py: the request model's validators (pydantic)                    *)
(***************************************************************************)
TimeRegexOk(t) == t[1] \in 0..23 /\ t[2] \in 0..59

TrainModelValid(t, maxp) ==
    /\ TimeRegexOk(t.arrival) /\ TimeRegexOk(t.departure)
    /\ time_to_minutes(t.arrival) < time_to_minutes(t.departure)
    /\ t.priority >= 0
    /\ t.platform > 0 /\ t.platform <= maxp
    /\ t.train_id # ""

ScheduleRequestValid(trains, maxp) ==
    /\ \A i \in 1..Len(trains) : TrainModelValid(trains[i], maxp)
    /\ Len(trains) > 0
    /\ \A i, j \in 1..Len(trains) :
           trains[i].train_id = trains[j].train_id => i = j

(***************************************************************************)
(* scheduler.py: validate_schedule_data                                    *)
(***************************************************************************)
TrainIssues(trains, i, maxp) ==
    LET t == trains[i]
        a == time_to_minutes(t.arrival)
        d == time_to_minutes(t.departure)
    IN  (IF \E j \in 1..(i - 1) : trains[j].train_id = t.train_id
         THEN <<[kind |-> "duplicate", train |-> i]>> ELSE <<>>)
        \o (IF a = ValueError \/ d = ValueError
            THEN <<[kind |-> "time_format", train |-> i]>>
            ELSE IF a >= d
                 THEN <<[kind |-> "arrival_not_before_departure", train |-> i]>>
                 ELSE <<>>)
        \o (IF t.platform <= 0 \/ t.platform > maxp
            THEN <<[kind |-> "platform", train |-> i]>> ELSE <<>>)
        \o (IF t.priority < 1
            THEN <<[kind |-> "priority", train |-> i]>> ELSE <<>>)

RECURSIVE IssuesFrom(_, _, _)
IssuesFrom(trains, i, maxp) ==
    IF i > Len(trains) THEN <<>>
    ELSE TrainIssues(trains, i, maxp) \o IssuesFrom(trains, i + 1, maxp)

\* a validator that stops at the first violation
validate_first_only(trains, maxp) ==
    IF Len(trains) = 0
    THEN <<[kind |-> "no_trains", train |-> 0]>>
    ELSE LET all == IssuesFrom(trains, 1, maxp)
         IN  IF all = <<>> THEN <<>> ELSE <<all[1]>>

validate_schedule_data(trains, maxp) ==
    IF Len(trains) = 0
    THEN <<[kind |-> "no_trains", train |-> 0]>>
    ELSE IssuesFrom(trains, 1, maxp)

(***************************************************************************)
(* main.py: check_for_overlaps.  Trains are grouped by requested platform  *)
(* (groups in order of first occurrence), each group is sorted by arrival  *)
(* with Python's stable sort, and adjacent pairs are compared on the       *)
(* literal requested times.                                                *)
(***************************************************************************)
RECURSIVE IndicesOnPlatform(_, _, _)
IndicesOnPlatform(trains, p, i) ==
    IF i > Len(trains) THEN <<>>
    ELSE (IF trains[i].platform = p THEN <<i>> ELSE <<>>)
         \o IndicesOnPlatform(trains, p, i + 1)

RECURSIVE PlatformGroups(_, _, _)
PlatformGroups(trains, i, seen) ==
    IF i > Len(trains) THEN <<>>
    ELSE IF trains[i].platform \in seen
         THEN PlatformGroups(trains, i + 1, seen)
         ELSE <<trains[i].platform>>
              \o PlatformGroups(trains, i + 1, seen \cup {trains[i].platform})

\* insert index x behind every element whose key is <= its own (stable)
RECURSIVE InsertByKey(_, _, _)
InsertByKey(sorted, x, key) ==
    IF sorted = <<>> THEN <<x>>
    ELSE IF key[Head(sorted)] <= key[x]
         THEN <<Head(sorted)>> \o InsertByKey(Tail(sorted), x, key)
         ELSE <<x>> \o sorted

RECURSIVE StableSort(_, _)
StableSort(idxs, key) ==
    IF idxs = <<>> THEN <<>>
    ELSE InsertByKey(StableSort(SubSeq(idxs, 1, Len(idxs) - 1), key),
                     idxs[Len(idxs)], key)

ArrivalKey(trains) ==
    [i \in 1..Len(trains) |-> time_to_minutes(trains[i].arrival)]

\* a detector that also reports a departure equal to the next arrival
RECURSIVE AdjacentConflictsInclusive(_, _, _)
AdjacentConflictsInclusive(trains, sorted, i) ==
    IF i >= Len(sorted) THEN <<>>
    ELSE LET cur == trains[sorted[i]]
             nxt == trains[sorted[i + 1]]
         IN  (IF time_to_minutes(cur.departure) >= time_to_minutes(nxt.arrival)
              THEN <<[platform |-> cur.platform,
                      train1 |-> cur.train_id, train2 |-> nxt.train_id,
                      train1_departure |-> cur.departure,
                      train2_arrival |-> nxt.arrival]>>
              ELSE <<>>)
             \o AdjacentConflictsInclusive(trains, sorted, i + 1)

RECURSIVE AdjacentConflicts(_, _, _)
AdjacentConflicts(trains, sorted, i) ==
    IF i >= Len(sorted) THEN <<>>
    ELSE LET cur == trains[sorted[i]]
             nxt == trains[sorted[i + 1]]
         IN  (IF time_to_minutes(cur.departure) > time_to_minutes(nxt.arrival)
              THEN <<[platform |-> cur.platform,
                      train1 |-> cur.train_id, train2 |-> nxt.train_id,
                      train1_departure |-> cur.departure,
                      train2_arrival |-> nxt.arrival]>>
              ELSE <<>>)
             \o AdjacentConflicts(trains, sorted, i + 1)

\* a detector that compares the trains of a platform in request order
RECURSIVE ConflictsOfGroupsUnsorted(_, _)
ConflictsOfGroupsUnsorted(trains, groups) ==
    IF groups = <<>> THEN <<>>
    ELSE AdjacentConflicts(trains,
             IndicesOnPlatform(trains, Head(groups), 1), 1)
         \o ConflictsOfGroupsUnsorted(trains, Tail(groups))

RECURSIVE ConflictsOfGroups(_, _)
ConflictsOfGroups(trains, groups) ==
    IF groups = <<>> THEN <<>>
    ELSE AdjacentConflicts(trains,
             StableSort(IndicesOnPlatform(trains, Head(groups), 1),
                        ArrivalKey(trains)), 1)
         \o ConflictsOfGroups(trains, Tail(groups))

check_for_overlaps(trains) ==
    ConflictsOfGroups(trains, PlatformGroups(trains, 1, {}))

(***************************************************************************)
(* ai_model.py: the mock delay model and predict_delays                    *)
(***************************************************************************)
RushHour(hour) == hour \in 7..9 \/ hour \in 17..19

mock_predictions(hour, priority, platform, maxp) ==
    LET base == (IF RushHour(hour) THEN 15
                 ELSE IF hour \in 10..16 THEN 5 ELSE 0)
                + (priority - 1) * 8
                + (IF platform > maxp \div 2 THEN 3 ELSE 0)
        variation == ((hour * priority * platform) % 10) - 5
    IN  Max({0, base + variation})

\* delay_model.get(key, 0): the table holds priorities 1..3 only
delay_model_get(hour, priority, platform, maxp) ==
    IF hour \in 0..23 /\ priority \in 1..3 /\ platform \in 1..maxp
    THEN mock_predictions(hour, priority, platform, maxp)
    ELSE 0

StatusOfDelay(d) ==
    IF d <= PUNCTUAL_LIMIT THEN "on_time"
    ELSE IF d <= MINOR_LIMIT THEN "minor_delay" ELSE "delayed"

ManualStatuses == {"on_time", "delayed", "minor_delay", "cancelled"}

\* the values round(np.random.normal(5, 2)) explored
NoiseValues == (NOISE_MEAN - NoiseSpread)..(NOISE_MEAN + NoiseSpread)

predict_one(t, noise, maxp) ==
    IF t.delay_minutes # 0 \/ t.status \in ManualStatuses
    THEN t
    ELSE LET am == time_to_minutes(t.arrival)
             hour == IF am = ValueError THEN 0 ELSE am \div 60
             tab == delay_model_get(hour, t.priority, t.platform, maxp)
             predicted == Max({0, IF hour \in {7, 8, 17, 18}
                                  THEN tab + noise ELSE tab})
         IN  [t EXCEPT !.delay_minutes = predicted,
                       !.status = StatusOfDelay(predicted)]

predict_delays(trains, noise, maxp) ==
    [i \in 1..Len(trains) |-> predict_one(trains[i], noise[i], maxp)]

(***************************************************************************)
(* scheduler.py: the CP-SAT model get_optimized_schedule builds.           *)
(* An assignment is [arrival |-> <<a_1..a_n>>, platform |-> <<p_1..p_n>>]: *)
(* the values of arrival_vars and platform_vars.                           *)
(***************************************************************************)
original_arrival(t) == time_to_minutes(t.arrival)

\* the interval's duration: a non-positive one is replaced by 5
Duration(t) ==
    LET d == time_to_minutes(t.departure) - time_to_minutes(t.arrival)
    IN  IF d <= 0 THEN 5 ELSE d

\* an interval without the dwell buffer
IntervalSizeNoDwell(t) == Duration(t)

IntervalSize(t) == Duration(t) + DWELL_MINUTES

AllTimes(trains) ==
    UNION { {time_to_minutes(trains[i].arrival),
             time_to_minutes(trains[i].departure)} : i \in 1..Len(trains) }

Horizon(trains) == Max(AllTimes(trains)) + HORIZON_BUFFER

\* NewIntVar(1, MAX_PLATFORMS), NewIntVar(original_arrival, horizon)
InDomain(trains, maxp, asg) ==
    \A i \in 1..Len(trains) :
        /\ asg.platform[i] \in 1..maxp
        /\ asg.arrival[i] >= original_arrival(trains[i])
        /\ asg.arrival[i] <= Horizon(trains)

\* AddNoOverlap on every platform, over the intervals present on it
NoOverlap(trains, asg) ==
    \A i, j \in 1..Len(trains) :
        (i < j /\ asg.platform[i] = asg.platform[j]) =>
            \/ asg.arrival[i] + IntervalSize(trains[i]) <= asg.arrival[j]
            \/ asg.arrival[j] + IntervalSize(trains[j]) <= asg.arrival[i]

Feasible(trains, maxp, asg) ==
    InDomain(trains, maxp, asg) /\ NoOverlap(trains, asg)

priority_weight(priority) == Max({1, PRIORITY_K - priority})

\* an objective without the platform change term
CostTermsDelayOnly(t, a, p) ==
    (a - original_arrival(t)) * priority_weight(t.priority) * DELAY_COST_WEIGHT

\* the two cost terms of train i
CostTerms(t, a, p) ==
    (a - original_arrival(t)) * priority_weight(t.priority) * DELAY_COST_WEIGHT
    + (IF p # t.platform THEN 1 ELSE 0)
      * priority_weight(t.priority) * PLATFORM_CHANGE_COST

\* sum(total_cost_terms); a train whose terms could not be created
\* (skipped) contributes none
RECURSIVE ObjectiveFrom(_, _, _, _)
ObjectiveFrom(trains, asg, skipped, i) ==
    IF i > Len(trains) THEN 0
    ELSE (IF i \in skipped THEN 0
          ELSE CostTerms(trains[i], asg.arrival[i], asg.platform[i]))
         + ObjectiveFrom(trains, asg, skipped, i + 1)

Objective(trains, asg, skipped) == ObjectiveFrom(trains, asg, skipped, 1)

(***************************************************************************)
(* The solver (ortools CpSolver.Solve), by its contract.  The assignments  *)
(* it can return are enumerated as list schedules: trains are placed in    *)
(* some order on some platforms, each at the earliest minute its platform  *)
(* is free (never before its requested arrival) plus some slack.  With     *)
(* slack 0 these are the left-shifted schedules, which contain every       *)
(* optimum of an objective that grows with each delay, and one of which is *)
(* feasible whenever any assignment is.                                    *)
(***************************************************************************)
RECURSIVE Place(_, _, _, _, _, _)
Place(trains, p, order, slack, k, acc) ==
    IF k > Len(trains) THEN acc
    ELSE LET i == order[k]
             busy == { acc[j] + IntervalSize(trains[j]) :
                         j \in { q \in 1..Len(trains) :
                                   acc[q] >= 0 /\ p[q] = p[i] } }
             start == Max({original_arrival(trains[i])} \cup busy) + slack[i]
         IN  Place(trains, p, order, slack, k + 1, [acc EXCEPT ![i] = start])

ListSchedule(trains, p, order, slack) ==
    [arrival |-> Place(trains, p, order, slack, 1,
                       [i \in 1..Len(trains) |-> -1]),
     platform |-> p]

Candidates(trains, maxp) ==
    LET n == Len(trains)
        all == { ListSchedule(trains, p, order, slack) :
                   p \in [1..n -> 1..maxp],
                   order \in Permutations(1..n),
                   slack \in [1..n -> 0..MaxSlack] }
    IN  { asg \in all : Feasible(trains, maxp, asg) }

NoAssignment == [arrival |-> <<>>, platform |-> <<>>]

\* status and values of solver.Solve(model)
\* a solver without a time limit whose search, with more than one train,
\* does not end
SolverWithoutBudget(trains, maxp, skipped) ==
    IF Len(trains) > 1 THEN {}
    ELSE IF Candidates(trains, maxp) = {}
    THEN { [status |-> "INFEASIBLE", values |-> NoAssignment] }
    ELSE { [status |-> "OPTIMAL", values |-> asg] :
             asg \in Candidates(trains, maxp) }

SolverOutcomes(trains, maxp, skipped) ==
    LET C == Candidates(trains, maxp)
    IN  IF C = {}
        THEN { [status |-> "INFEASIBLE", values |-> NoAssignment],
               [status |-> "UNKNOWN", values |-> NoAssignment] }
        ELSE LET best == Min({ Objective(trains, asg, skipped) : asg \in C })
             IN  { [status |-> "OPTIMAL", values |-> asg] :
                     asg \in { c \in C : Objective(trains, c, skipped) = best } }
                 \cup { [status |-> "FEASIBLE", values |-> asg] : asg \in C }
                 \cup { [status |-> "UNKNOWN", values |-> NoAssignment] }

(***************************************************************************)
(* scheduler.py: the dicts get_optimized_schedule returns.  A result train *)
(* is train.model_dump() plus the keys its branch adds; kind names the     *)
(* branch: "optimized" (lines 228-255), "original" (line 260),             *)
(* "failed" (lines 291-293) and "error" (lines 313-315).  An absent        *)
(* "scheduled" is NoTime and an absent "platform_changed" is FALSE.        *)
(***************************************************************************)
OptimizedTrain(t, a, p) ==
    LET duration == time_to_minutes(t.departure) - time_to_minutes(t.arrival)
        delay == a - time_to_minutes(t.arrival)
    IN  [train_id |-> t.train_id, priority |-> t.priority,
         platform |-> p,
         arrival |-> minutes_to_time(a),
         departure |-> minutes_to_time(a + duration),
         delay_minutes |-> delay,
         scheduled |-> t.arrival,
         status |-> IF delay > PUNCTUAL_LIMIT THEN "delayed" ELSE "on_time",
         platform_changed |-> (p # t.platform),
         kind |-> "optimized"]

OriginalTrain(t) ==
    [train_id |-> t.train_id, priority |-> t.priority,
     platform |-> t.platform,
     arrival |-> t.arrival, departure |-> t.departure,
     delay_minutes |-> t.delay_minutes,
     scheduled |-> NoTime,
     status |-> t.status,
     platform_changed |-> FALSE,
     kind |-> "original"]

FallbackTrain(t, branch) ==
    [OriginalTrain(t) EXCEPT !.scheduled = t.arrival, !.kind = branch]

NoResult ==
    [status |-> "none", reason |-> "", error |-> "", trains |-> <<>>,
     total_delay_minutes |-> 0, platform_changes |-> 0,
     fallback_used |-> FALSE]

\* lines 221-276: status OPTIMAL or FEASIBLE; the train whose processing
\* raised (failed, 0 for none) is appended as its model_dump
RECURSIVE SumOver(_, _)
SumOver(f, S) ==
    IF S = {} THEN 0
    ELSE LET x == CHOOSE y \in S : TRUE IN f[x] + SumOver(f, S \ {x})

SolutionResult(trains, status, values, failed) ==
    LET n == Len(trains)
        done == (1..n) \ {failed}
    IN  [status |-> IF status = "OPTIMAL" THEN "optimal" ELSE "feasible",
         reason |-> "", error |-> "",
         trains |-> [i \in 1..n |->
                       IF i = failed THEN OriginalTrain(trains[i])
                       ELSE OptimizedTrain(trains[i], values.arrival[i],
                                           values.platform[i])],
         total_delay_minutes |->
             SumOver([i \in 1..n |-> values.arrival[i]
                                     - time_to_minutes(trains[i].arrival)], done),
         platform_changes |->
             Cardinality({ i \in done :
                             values.platform[i] # trains[i].platform }),
         fallback_used |-> FALSE]

\* a failed branch that returns no trains
FailedResultNoTrains(trains, status) ==
    [status |-> "failed", reason |-> status, error |-> "",
     trains |-> <<>>,
     total_delay_minutes |-> 0, platform_changes |-> 0,
     fallback_used |-> TRUE]

\* lines 277-304: any other solver status
FailedResult(trains, status) ==
    [status |-> "failed", reason |-> status, error |-> "",
     trains |-> [i \in 1..Len(trains) |-> FallbackTrain(trains[i], "failed")],
     total_delay_minutes |-> 0, platform_changes |-> 0,
     fallback_used |-> TRUE]

\* an emergency fallback that drops the error message
ErrorResultNoReason(trains, error) ==
    [status |-> "error", reason |-> "", error |-> "",
     trains |-> [i \in 1..Len(trains) |-> FallbackTrain(trains[i], "error")],
     total_delay_minutes |-> 0, platform_changes |-> 0,
     fallback_used |-> TRUE]

\* lines 306-326: the emergency fallback of the outer except; the message
\* is carried under the key "error"
ErrorResult(trains, error) ==
    [status |-> "error", reason |-> "", error |-> error,
     trains |-> [i \in 1..Len(trains) |-> FallbackTrain(trains[i], "error")],
     total_delay_minutes |-> 0, platform_changes |-> 0,
     fallback_used |-> TRUE]

\* line 107: the early return for n = 0, without optimization_stats
EmptyResult ==
    [NoResult EXCEPT !.status = "no_stats"]

(***************************************************************************)
(* ai_model.py: compute_metrics.  The KPIs are kept in hundredths (the     *)
(* code rounds to two decimals).                                           *)
(***************************************************************************)
\* round(a / b), ties to even, for a >= 0 and b > 0
RoundDiv(a, b) ==
    LET q == a \div b
        r == a % b
    IN  IF 2 * r < b THEN q
        ELSE IF 2 * r > b THEN q + 1
        ELSE IF q % 2 = 0 THEN q ELSE q + 1

ZeroMetrics ==
    [throughput_trains_per_hr |-> 0, avg_delay_minutes |-> 0,
     platform_utilization_pct |-> 0, punctuality_pct |-> 0]

\* A train as compute_metrics reads it: a dict.  A time field is
\* [kind, value], kind "absent" (no such key), "null" (None or another
\* non-string) or "str" with the HH:MM pair in value; delay_minutes is
\* [kind, value], kind "absent", "null", "str" (a non-numeric value) or
\* "int"; status is a text, NoKey when the key is absent and NullText when
\* it is None.
NoKey == "<absent>"
NullText == "<null>"

StrTime(t) == [kind |-> "str", value |-> t]
IntDelay(d) == [kind |-> "int", value |-> d]

\* lines 35-41 on one train: "ok" (both times parsed), "skip" (KeyError or
\* ValueError, caught) or "raise" (strptime of a non-string is a TypeError,
\* which the except clause does not name)
TimeOutcomeOf(f) ==
    IF f.kind = "absent" THEN "skip"
    ELSE IF f.kind = "null" THEN "raise"
    ELSE IF TimeRegexOk(f.value) THEN "ok" ELSE "skip"

TimeOutcome(d) ==
    IF TimeOutcomeOf(d.arrival) # "ok" THEN TimeOutcomeOf(d.arrival)
    ELSE TimeOutcomeOf(d.departure)

\* lines 49-50: t.get("delay_minutes", 0) is a number
NumericDelay(d) == d.delay_minutes.kind \in {"absent", "int"}

DelayValue(d) ==
    IF d.delay_minutes.kind = "int" THEN d.delay_minutes.value ELSE 0

\* lines 57-61: the words looked for in (t.get("status") or "").lower(),
\* for the status texts of the model
StatusTexts == {"on_time", "delayed", "minor_delay", "cancelled",
                "scheduled", NoKey, NullText}

HasPunctualWord(status) == status \in {"on_time"}

HasDelayWord(status) == status \in {"delayed", "minor_delay"}

\* a count in which the status text, when it has a word, wins over the delay
CountedPunctualByStatus(d) ==
    IF HasPunctualWord(d.status) THEN TRUE
    ELSE IF HasDelayWord(d.status) THEN FALSE
    ELSE NumericDelay(d) /\ DelayValue(d) <= PUNCTUAL_LIMIT

\* lines 52-61: the train counts as punctual
CountedPunctual(d) ==
    IF NumericDelay(d) THEN DelayValue(d) <= PUNCTUAL_LIMIT
    ELSE HasPunctualWord(d.status)

\* the value of a raising call
Raised == [raised |-> TRUE, metrics |-> ZeroMetrics]

\* compute_metrics on a list of dicts
compute_metrics_of(dicts, maxp) ==
    IF Len(dicts) = 0 THEN [raised |-> FALSE, metrics |-> ZeroMetrics]
    ELSE IF \E i \in 1..Len(dicts) : TimeOutcome(dicts[i]) = "raise"
    THEN Raised
    ELSE
    LET n == Len(dicts)
        \* trains whose times strptime parses; the others are skipped whole
        ok == { i \in 1..n : TimeOutcome(dicts[i]) = "ok" }
        times == UNION { {time_to_minutes(dicts[i].arrival.value),
                          time_to_minutes(dicts[i].departure.value)} :
                         i \in ok }
        span == IF times = {} THEN 0 ELSE Max(times) - Min(times)
        platforms_used == { dicts[i].platform :
                              i \in { j \in ok : dicts[j].platform > 0 } }
        punctual == { i \in ok : CountedPunctual(dicts[i]) }
        delays == { i \in ok : NumericDelay(dicts[i]) }
        delaysum == SumOver([i \in 1..n |-> DelayValue(dicts[i])], delays)
    IN  [raised |-> FALSE,
         metrics |->
           [throughput_trains_per_hr |->
                RoundDiv(n * 60 * 100, Max({span, 60})),
            avg_delay_minutes |->
                IF delays = {} THEN 0
                ELSE RoundDiv(delaysum * 100, Cardinality(delays)),
            platform_utilization_pct |->
                RoundDiv(Cardinality(platforms_used) * 100 * 100, maxp),
            punctuality_pct |->
                RoundDiv(Cardinality(punctual) * 100 * 100, n)]]

\* a train of a result, as the dict compute_metrics is given
AsDict(rt) ==
    [arrival |-> StrTime(rt.arrival), departure |-> StrTime(rt.departure),
     platform |-> rt.platform, delay_minutes |-> IntDelay(rt.delay_minutes),
     status |-> rt.status]

\* compute_metrics on the trains of a result: every field is present
compute_metrics(rtrains, maxp) ==
    compute_metrics_of([i \in 1..Len(rtrains) |-> AsDict(rtrains[i])],
                       maxp).metrics

(***************************************************************************)
(* database_pg.py: sort_trains_by_arrival (stable, on the emitted arrival; *)
(* an unparsable arrival sorts as 00:00)                                   *)
(***************************************************************************)
sort_trains_by_arrival(rtrains) ==
    LET key == [i \in 1..Len(rtrains) |->
                  IF TimeRegexOk(rtrains[i].arrival)
                  THEN time_to_minutes(rtrains[i].arrival) ELSE 0]
        order == StableSort([i \in 1..Len(rtrains) |-> i], key)
    IN  [k \in 1..Len(rtrains) |-> rtrains[order[k]]]

(***************************************************************************)
(* State.                                                                  *)
(*   MAX_PLATFORMS      config.py: the configured platform capacity        *)
(*   entry              who calls the optimizer: the /optimize endpoint    *)
(*                      ("optimize") or another caller ("direct"), such    *)
(*                      as simulate_scenario                               *)
(*   use_ai             the endpoint's use_ai query parameter              *)
(*   requested          the request as received                            *)
(*   trains             data.trains (predict_delays writes into it)        *)
(*   pc                 the position of the request in the pipeline        *)
(*   conflicts          what check_for_overlaps found                      *)
(*   validation_issues  what validate_schedule_data returned               *)
(*   fault              the exception raised inside get_optimized_schedule *)
(*                      (at most one per call): its try block and train    *)
(*   solver             status and values of solver.Solve                  *)
(*   result             the dict get_optimized_schedule returned           *)
(*   gos_outcome        how get_optimized_schedule ended                   *)
(*   response           the endpoint's sorted schedule                     *)
(*   db                 the schedule held by the persistence layer         *)
(*   broadcasts         the messages handed to manager.broadcast           *)
(*   http               the endpoint's response status (0: none yet)       *)
(*   calls              the collaborators invoked, in order                *)
(***************************************************************************)
VARIABLES MAX_PLATFORMS, entry, use_ai, requested, trains, pc, conflicts,
          validation_issues, fault, solver, result, gos_outcome, response,
          db, broadcasts, http, calls

(***************************************************************************)
(* State of a call of validate_schedule_data on its own.                   *)
(*   vd_given    the request the caller built                              *)
(*   vd_data     the request object after the call                         *)
(*   vd_issues   the list the call returned                                *)
(*   vd_pc       "call" before the call, "done" after it, "idle" when no   *)
(*               such call is under study                                  *)
(***************************************************************************)
VARIABLES vd_given, vd_data, vd_issues, vd_pc

validateVars == <<vd_given, vd_data, vd_issues, vd_pc>>

ValidateIdle ==
    /\ vd_given = <<>> /\ vd_data = <<>>
    /\ vd_issues = <<>> /\ vd_pc = "idle"

(***************************************************************************)
(* State of the server process handling several requests (main.py).        *)
(* FastAPI runs an "async def" endpoint on the event loop, where it keeps  *)
(* the loop until it awaits, and a "def" endpoint in a pool thread; a      *)
(* request is accepted, and the value a pool thread returned is            *)
(* serialized and sent, by the event loop.                                 *)
(*   req_kind            the endpoint each request is for                  *)
(*   req_pc              where each request is                             *)
(*   req_http            each request's response status (0: none yet)      *)
(*   loop                the request running on the event loop (0: none)   *)
(*   state_lock          the request holding state_lock (0: free)          *)
(*   digital_twin_state  the in-memory dict: schedule and alerts           *)
(*   stored_schedule     the schedule save_schedule_to_db stored last      *)
(*   snapshot            per read, the state when it held the lock         *)
(*   observed            per read, the state its response carries          *)
(*   published           the requests that assigned the schedule of        *)
(*                       digital_twin_state, in the order they did         *)
(*   message             per request, the message it handed to             *)
(*                       manager.broadcast                                 *)
(*   sent_to             per request, how many connections its             *)
(*                       manager.broadcast has sent to                     *)
(*   received            per listener (a websocket connected throughout,   *)
(*                       in the order of active_connections), the          *)
(*                       messages sent to it                               *)
(***************************************************************************)
VARIABLES req_kind, req_pc, req_http, loop, state_lock, digital_twin_state,
          stored_schedule, snapshot, observed, published, message, sent_to,
          received

deliveryVars == <<published, message, sent_to, received>>

serverVars == <<req_kind, req_pc, req_http, loop, state_lock,
                digital_twin_state, stored_schedule, snapshot, observed,
                deliveryVars>>

None == [source |-> 0, enriched |-> FALSE]

EmptyTwin == [schedule |-> None, alerts |-> <<>>]

ServerIdle ==
    /\ req_kind = <<>> /\ req_pc = <<>> /\ req_http = <<>>
    /\ loop = 0 /\ state_lock = 0
    /\ digital_twin_state = EmptyTwin
    /\ stored_schedule = 0
    /\ snapshot = <<>> /\ observed = <<>>
    /\ published = <<>> /\ message = <<>>
    /\ sent_to = <<>> /\ received = <<>>

(***************************************************************************)
(* State of the websocket subscribers and of manager.broadcast (main.py).  *)
(* Subscribers' endpoint tasks and the broadcasting task run on the event  *)
(* loop and interleave at their awaits.                                    *)
(*   ws_state            per websocket, where its endpoint task is: "new"  *)
(*                       (not connected yet), "greeting" (registered,      *)
(*                       about to send connection_established), "open"     *)
(*                       (in the receive loop), "gone" (task ended)        *)
(*   send_mode           per websocket, what send_text on it does: "ok",   *)
(*                       "fail" (raises) or "stall" (never completes)      *)
(*   inbox               per websocket, the messages its client received   *)
(*   active_connections  manager.active_connections (a list)               *)
(*   connection_ids      the keys of manager.connection_ids                *)
(*   bc_pc               the broadcasting task: "idle" or "sending"        *)
(*   bc_id               the number of the broadcast started last          *)
(*   bc_index            the position of the for loop's list iterator      *)
(*   bc_failed           disconnected_connections of that broadcast        *)
(*   bc_at_start         the websockets registered when it started         *)
(*   bc_left             the websockets that disconnected since it started *)
(*   bc_joined           the websockets that connected since it started    *)
(*   done_at_connect     per websocket, the broadcasts that had returned   *)
(*                       when it connected                                 *)
(***************************************************************************)
VARIABLES ws_state, send_mode, inbox, active_connections, connection_ids,
          bc_pc, bc_id, bc_index, bc_failed, bc_at_start, bc_left, bc_joined,
          done_at_connect

hubVars == <<ws_state, send_mode, inbox, active_connections, connection_ids,
             bc_pc, bc_id, bc_index, bc_failed, bc_at_start, bc_left,
             bc_joined, done_at_connect>>

HubIdle ==
    /\ ws_state = <<>> /\ send_mode = <<>> /\ inbox = <<>>
    /\ active_connections = <<>> /\ connection_ids = {}
    /\ bc_pc = "idle" /\ bc_id = 0 /\ bc_index = 0
    /\ bc_failed = <<>> /\ bc_at_start = {} /\ bc_left = {}
    /\ bc_joined = {}
    /\ done_at_connect = <<>>

(***************************************************************************)
(* A function of the program called on its own, once or several times on   *)
(* the same arguments.                                                     *)
(*   fn_name   the function called ("none": no such call in this run)      *)
(*   fn_args   its arguments                                               *)
(*   fn_rets   what its calls returned so far, in order                    *)
(***************************************************************************)
VARIABLES fn_name, fn_args, fn_rets

callVars == <<fn_name, fn_args, fn_rets>>

CallIdle == fn_name = "none" /\ fn_args = <<>> /\ fn_rets = <<>>

pipelineVars == <<entry, use_ai, requested, trains, pc, conflicts,
                  validation_issues, fault, solver, result, gos_outcome,
                  response, db, broadcasts, http, calls>>

vars == <<MAX_PLATFORMS, pipelineVars, validateVars, serverVars, hubVars,
          callVars>>

\* what no step of a request through the optimize pipeline changes
config == <<MAX_PLATFORMS, entry, use_ai, requested, validateVars,
           serverVars, hubVars, callVars>>
endpointVars == <<response, db, broadcasts, http>>
gosVars == <<validation_issues, fault, solver, result, gos_outcome>>

NoFault == [stage |-> "none", train |-> 0]
NoSolve == [status |-> "none", values |-> NoAssignment]

Init ==
    /\ MAX_PLATFORMS \in 1..MaxPlatformConfig
    /\ requested \in Requests
    /\ entry \in {"optimize", "direct"}
    /\ use_ai \in BOOLEAN
    \* FastAPI hands the endpoint only requests the model accepts; another
    \* caller passes what it holds (and has no use_ai parameter)
    /\ entry = "optimize" => ScheduleRequestValid(requested, MAX_PLATFORMS)
    /\ entry = "direct" => use_ai = FALSE
    /\ trains = requested
    /\ pc = IF entry = "optimize" THEN "optimize" ELSE "gos_validate"
    /\ conflicts = <<>>
    /\ validation_issues = <<>>
    /\ fault = NoFault
    /\ solver = NoSolve
    /\ result = NoResult
    /\ gos_outcome = "pending"
    /\ response = NoResult
    /\ db = NoResult
    /\ broadcasts = <<>>
    /\ http = 0
    /\ calls = <<>>
    /\ ValidateIdle
    /\ ServerIdle
    /\ HubIdle
    /\ CallIdle

\* no request is in the optimize pipeline
PipelineIdle ==
    /\ entry = "none" /\ use_ai = FALSE
    /\ requested = <<>> /\ trains = <<>>
    /\ pc = "done"
    /\ conflicts = <<>> /\ validation_issues = <<>>
    /\ fault = NoFault /\ solver = NoSolve
    /\ result = NoResult /\ gos_outcome = "pending"
    /\ response = NoResult /\ db = NoResult
    /\ broadcasts = <<>> /\ http = 0 /\ calls = <<>>

(***************************************************************************)
(* main.py: optimize, lines 141-143                                        *)
(***************************************************************************)
OptimizeCheck ==
    /\ pc = "optimize"
    /\ IF Len(trains) = 0
       THEN /\ http' = 400
            /\ pc' = "done"
            /\ UNCHANGED <<conflicts, calls>>
       ELSE /\ conflicts' = check_for_overlaps(trains)
            /\ calls' = Append(calls, "check_for_overlaps")
            /\ IF conflicts' # <<>>
               THEN http' = 400 /\ pc' = "done"
               ELSE http' = http /\ pc' = "predict"
    /\ UNCHANGED <<config, trains, gosVars, response, db, broadcasts>>

(***************************************************************************)
(* main.py: optimize, lines 144-145                                        *)
(***************************************************************************)
OptimizePredict ==
    /\ pc = "predict"
    /\ IF use_ai
       THEN \E noise \in [1..Len(trains) -> NoiseValues] :
               /\ trains' = predict_delays(trains, noise, MAX_PLATFORMS)
               /\ calls' = Append(calls, "predict_delays")
       ELSE UNCHANGED <<trains, calls>>
    /\ pc' = "gos_validate"
    /\ UNCHANGED <<config, conflicts, gosVars, endpointVars>>

(***************************************************************************)
(* scheduler.py: get_optimized_schedule, lines 95-107                      *)
(***************************************************************************)
GOS_Validate ==
    /\ pc = "gos_validate"
    /\ calls' = Append(calls, "get_optimized_schedule")
    /\ validation_issues' = validate_schedule_data(trains, MAX_PLATFORMS)
    /\ IF validation_issues' # <<>>
       THEN /\ result' = ErrorResult(trains, "Invalid schedule data")
            /\ gos_outcome' = "returned"
            /\ pc' = "gos_return"
       ELSE IF Len(trains) = 0
       THEN /\ result' = EmptyResult
            /\ gos_outcome' = "returned"
            /\ pc' = "gos_return"
       ELSE /\ pc' = "gos_build"
            /\ UNCHANGED <<result, gos_outcome>>
    /\ UNCHANGED <<config, trains, conflicts, fault, solver, endpointVars>>

(***************************************************************************)
(* scheduler.py: get_optimized_schedule, lines 111-210: the horizon, the   *)
(* variables and constraints, the objective.  Each try block can raise.    *)
(***************************************************************************)
BuildFaults(n) ==
    {NoFault, [stage |-> "horizon", train |-> 0]}
    \cup { [stage |-> s, train |-> i] :
             s \in {"construct", "objective"}, i \in 1..n }

GOS_Build ==
    /\ pc = "gos_build"
    /\ \E f \in BuildFaults(Len(trains)) :
          /\ fault' = f
          /\ IF f.stage = "horizon"
             THEN /\ result' = ErrorResult(trains, "Invalid time data in schedule")
                  /\ gos_outcome' = "returned"
                  /\ pc' = "gos_return"
             ELSE IF f.stage = "construct"
             THEN /\ result' = ErrorResult(trains,
                                  "Failed to create optimization variables")
                  /\ gos_outcome' = "returned"
                  /\ pc' = "gos_return"
             ELSE /\ pc' = "gos_solve"
                  /\ UNCHANGED <<result, gos_outcome>>
    /\ UNCHANGED <<config, trains, conflicts, validation_issues, solver,
                   endpointVars, calls>>

(***************************************************************************)
(* scheduler.py: get_optimized_schedule, lines 212-218                     *)
(***************************************************************************)
SkippedTerms == IF fault.stage = "objective" THEN {fault.train} ELSE {}

GOS_Solve ==
    /\ pc = "gos_solve"
    /\ solver' \in SolverOutcomes(trains, MAX_PLATFORMS, SkippedTerms)
    /\ pc' = "gos_process"
    /\ UNCHANGED <<config, trains, conflicts, validation_issues, fault,
                   result, gos_outcome, endpointVars, calls>>

(***************************************************************************)
(* scheduler.py: get_optimized_schedule, lines 220-304                     *)
(***************************************************************************)
GOS_Process ==
    /\ pc = "gos_process"
    /\ IF solver.status \in {"OPTIMAL", "FEASIBLE"}
       THEN \E failed \in (IF fault = NoFault THEN 0..Len(trains) ELSE {0}) :
               /\ result' = SolutionResult(trains, solver.status,
                                           solver.values, failed)
               /\ fault' = IF failed = 0 THEN fault
                           ELSE [stage |-> "result", train |-> failed]
       ELSE /\ result' = FailedResult(trains, solver.status)
            /\ UNCHANGED fault
    /\ gos_outcome' = "returned"
    /\ pc' = "gos_return"
    /\ UNCHANGED <<config, trains, conflicts, validation_issues, solver,
                   endpointVars, calls>>

(***************************************************************************)
(* main.py: optimize, lines 147-161                                        *)
(***************************************************************************)
OptimizeSave ==
    /\ pc = "gos_return"
    /\ entry = "optimize"
    /\ response' = [result EXCEPT !.trains = sort_trains_by_arrival(result.trains)]
    /\ calls' = Append(calls, "save_schedule_to_db")
    /\ \E saved \in BOOLEAN :
          IF saved
          THEN db' = response' /\ pc' = "saved" /\ http' = http
          ELSE db' = db /\ pc' = "done" /\ http' = 500
    /\ UNCHANGED <<config, trains, conflicts, gosVars, broadcasts>>

(***************************************************************************)
(* main.py: optimize, lines 162-177                                        *)
(***************************************************************************)
OptimizeBroadcast ==
    /\ pc = "saved"
    /\ broadcasts' = Append(broadcasts,
                        [type |-> "schedule_updated", schedule |-> response,
                         metrics |-> compute_metrics(response.trains,
                                                     MAX_PLATFORMS)])
    /\ calls' = Append(calls, "broadcast")
    /\ http' = 200
    /\ pc' = "done"
    /\ UNCHANGED <<config, trains, conflicts, gosVars, response, db>>

Next ==
    \/ OptimizeCheck
    \/ OptimizePredict
    \/ GOS_Validate
    \/ GOS_Build
    \/ GOS_Solve
    \/ GOS_Process
    \/ OptimizeSave
    \/ OptimizeBroadcast

Spec == Init /\ [][Next]_vars

\* The calls of at most MaxTrainsTimed trains, where a call that can take
\* its next step takes it: get_optimized_schedule is synchronous code.
InitTimed == Init /\ Len(requested) <= MaxTrainsTimed

FairSpec ==
    /\ InitTimed /\ [][Next]_vars
    /\ WF_vars(GOS_Validate) /\ WF_vars(GOS_Build)
    /\ WF_vars(GOS_Solve) /\ WF_vars(GOS_Process)

(***************************************************************************)
(* scheduler.py: validate_schedule_data called on its own, on requests     *)
(* that need not have passed the request model (a caller can build or      *)
(* change a Train without validation): identifiers can repeat, times can   *)
(* be malformed or out of order, platform and priority out of range.       *)
(***************************************************************************)
ValidatePool ==
    { Train(id, tm[1], tm[2], prio, plat) :
        id \in {"T1", "T2"},
        tm \in { <<<<8, 0>>, <<8, 5>>>>, <<<<24, 0>>, <<8, 5>>>>,
                 <<<<8, 5>>, <<8, 5>>>>, <<<<8, 5>>, <<8, 0>>>> },
        prio \in {0, 1},
        plat \in {0, 1, MaxPlatformConfig + 1} }

ValidateInputs ==
    UNION { [1..n -> ValidatePool] : n \in 0..MaxBatch }

InitValidate ==
    /\ MAX_PLATFORMS \in 1..MaxPlatformConfig
    /\ vd_given \in ValidateInputs
    /\ vd_data = vd_given
    /\ vd_issues = <<>>
    /\ vd_pc = "call"
    /\ PipelineIdle
    /\ ServerIdle
    /\ HubIdle
    /\ CallIdle

\* the function reads data.trains and builds a new list; it assigns to
\* nothing reachable from data
ValidateCall ==
    /\ vd_pc = "call"
    /\ vd_issues' = validate_schedule_data(vd_data, MAX_PLATFORMS)
    /\ vd_data' = vd_data
    /\ vd_pc' = "done"
    /\ UNCHANGED <<MAX_PLATFORMS, pipelineVars, serverVars, hubVars,
                   callVars, vd_given>>

NextValidate == ValidateCall

SpecValidate == InitValidate /\ [][NextValidate]_vars

(***************************************************************************)
(* Vocabulary of the properties.                                           *)
(***************************************************************************)
Returned == gos_outcome = "returned"

N == Len(requested)

\* the request passed the request model and the conflict detector
Accepted ==
    /\ ScheduleRequestValid(requested, MAX_PLATFORMS)
    /\ check_for_overlaps(requested) = <<>>

\* time-of-day minutes of an emitted HH:MM value
Emitted(t) == time_to_minutes(t)

\* the intervals [arrival, departure + dwell) of two result trains, read
\* from the HH:MM values of the result, overlap on one platform
EmittedOverlap(x, y) ==
    /\ x.platform = y.platform
    /\ Emitted(x.arrival) < Emitted(y.departure) + DWELL_MINUTES
    /\ Emitted(y.arrival) < Emitted(x.departure) + DWELL_MINUTES

\* the solver's minutes of an optimized result train, recovered from the
\* result: its arrival is scheduled + delay_minutes, its duration is what
\* the emitted departure lies after the emitted arrival, modulo the day
AssignedArrival(x) == Emitted(x.scheduled) + x.delay_minutes
AssignedEnd(x) ==
    AssignedArrival(x)
    + ((Emitted(x.departure) - Emitted(x.arrival)) % DayMinutes)
    + DWELL_MINUTES

\* the requested intervals [arrival, departure + dwell) of trains i and j
\* overlap on one requested platform
RequestedDwellOverlap(i, j) ==
    /\ requested[i].platform = requested[j].platform
    /\ Emitted(requested[i].arrival)
         < Emitted(requested[j].departure) + DWELL_MINUTES
    /\ Emitted(requested[j].arrival)
         < Emitted(requested[i].departure) + DWELL_MINUTES

DwellConflictFree ==
    \A i, j \in 1..N : i # j => ~RequestedDwellOverlap(i, j)

\* result train i carries the requested platform and times
AsRequested(i) ==
    /\ result.trains[i].platform = requested[i].platform
    /\ result.trains[i].arrival = requested[i].arrival
    /\ result.trains[i].departure = requested[i].departure

Fallback == result.status \in {"failed", "error"}

\* the result says why: "reason" of a failed result, "error" of an error one
ReasonGiven == result.reason # "" \/ result.error # ""

(***************************************************************************)
(* C1.  As claimed: in every result returned for a request that passed     *)
(* request validation and conflict detection, whatever its status, no two  *)
(* trains on one assigned platform have overlapping intervals              *)
(* [arrival, departure + DWELL_MINUTES).                                   *)
(***************************************************************************)
C1_NoOverlapAnyStatus ==
    (Returned /\ Accepted) =>
        \A i, j \in 1..Len(result.trains) :
            i < j => ~EmittedOverlap(result.trains[i], result.trains[j])

\* C1, amended: in a result with status optimal or feasible, any two trains
\* that carry the solver's values and share the assigned platform occupy
\* disjoint intervals [a, a + duration + DWELL_MINUTES) in the solver's
\* minutes (a = scheduled + delay_minutes).
C1_NoOverlapAssigned ==
    (Returned /\ result.status \in {"optimal", "feasible"}) =>
        \A i, j \in 1..Len(result.trains) :
            ( /\ i < j
              /\ result.trains[i].kind = "optimized"
              /\ result.trains[j].kind = "optimized"
              /\ result.trains[i].platform = result.trains[j].platform ) =>
                \/ AssignedEnd(result.trains[i])
                     <= AssignedArrival(result.trains[j])
                \/ AssignedEnd(result.trains[j])
                     <= AssignedArrival(result.trains[i])

\* two trains requested in conflict end up one behind the other on one
\* platform of an optimal result
C1_Witness ==
    /\ Returned /\ result.status = "optimal" /\ N >= 2
    /\ \E i, j \in 1..N :
          /\ i < j
          /\ RequestedDwellOverlap(i, j)
          /\ result.trains[i].kind = "optimized"
          /\ result.trains[j].kind = "optimized"
          /\ result.trains[i].platform = result.trains[j].platform
          /\ result.trains[j].delay_minutes > 0

(***************************************************************************)
(* C2.  As claimed: for every train of every result, the emitted arrival   *)
(* time-of-day is at or after the requested arrival and the emitted        *)
(* departure - arrival equals the requested departure - arrival.           *)
(***************************************************************************)
C2_EmittedTimesKeepOrderAndDuration ==
    Returned =>
        \A i \in 1..Len(result.trains) :
            /\ Emitted(result.trains[i].arrival) >= Emitted(requested[i].arrival)
            /\ Emitted(result.trains[i].departure)
                 - Emitted(result.trains[i].arrival)
               = Emitted(requested[i].departure)
                 - Emitted(requested[i].arrival)

C4_EmptyRequestNoError ==
    N = 0 =>
        /\ http # 400
        /\ Returned =>
              /\ result.trains = <<>>
              /\ result.status \notin {"error", "failed"}
              /\ compute_metrics(result.trains, MAX_PLATFORMS) = ZeroMetrics

(***************************************************************************)
(* C5.  In the optimize endpoint, whenever two trains adjacent in arrival  *)
(* order on one requested platform have the earlier one's departure        *)
(* strictly after the later one's arrival, the request is rejected (400)   *)
(* with the conflict reported and nothing but the conflict detector has    *)
(* been invoked: no predictor, optimizer, persistence or broadcast.  No    *)
(* dwell buffer is applied: when every such departure is at or before the  *)
(* next arrival, nothing is reported and a request with trains is not      *)
(* rejected.                                                               *)
(***************************************************************************)
Arr(i) == Emitted(requested[i].arrival)
Dep(i) == Emitted(requested[i].departure)

\* i comes right before j in some arrival order of their platform
AdjacentInArrivalOrder(i, j) ==
    /\ i # j
    /\ requested[i].platform = requested[j].platform
    /\ Arr(i) <= Arr(j)
    /\ ~\E k \in (1..N) \ {i, j} :
          /\ requested[k].platform = requested[i].platform
          /\ Arr(i) < Arr(k) /\ Arr(k) < Arr(j)

\* ... and in every arrival order: no third train ties with either
NoTieAround(i, j) ==
    /\ Arr(i) < Arr(j)
    /\ ~\E k \in (1..N) \ {i, j} :
          /\ requested[k].platform = requested[i].platform
          /\ Arr(i) <= Arr(k) /\ Arr(k) <= Arr(j)

LiteralConflict ==
    \E i, j \in 1..N : AdjacentInArrivalOrder(i, j) /\ Dep(i) > Arr(j)

ConflictReported(i, j) ==
    \E k \in 1..Len(conflicts) :
        /\ conflicts[k].platform = requested[i].platform
        /\ conflicts[k].train1 = requested[i].train_id
        /\ conflicts[k].train2 = requested[j].train_id
        /\ conflicts[k].train1_departure = requested[i].departure
        /\ conflicts[k].train2_arrival = requested[j].arrival

C5_ConflictRejectedBeforeOptimization ==
    (entry = "optimize" /\ pc # "optimize") =>
        /\ LiteralConflict =>
              /\ http = 400 /\ pc = "done"
              /\ conflicts # <<>>
              /\ \A i, j \in 1..N :
                    ( /\ AdjacentInArrivalOrder(i, j) /\ NoTieAround(i, j)
                      /\ Dep(i) > Arr(j) ) => ConflictReported(i, j)
              /\ calls = <<"check_for_overlaps">>
              /\ trains = requested
              /\ result = NoResult /\ db = NoResult /\ broadcasts = <<>>
        /\ ~LiteralConflict => (conflicts = <<>> /\ (http = 400 => N = 0))

\* a request rejected for a conflict between trains departing and arriving
\* at different minutes
C5_Witness ==
    /\ entry = "optimize" /\ http = 400 /\ conflicts # <<>>
    /\ \E i, j \in 1..N :
          AdjacentInArrivalOrder(i, j) /\ NoTieAround(i, j)
          /\ Dep(i) > Arr(j)

(***************************************************************************)
(* C6.  As claimed, in the case most favourable to the claim (the solver   *)
(* proved optimality and nothing raised): given a priority-1 and a         *)
(* priority-3 train requesting one platform with overlapping intervals     *)
(* (dwell included), whenever some feasible assignment keeps the           *)
(* priority-1 train at its requested arrival and platform, the result      *)
(* leaves the priority-1 train undelayed on its platform and delays or     *)
(* relocates the priority-3 train.                                         *)
(***************************************************************************)
Untouched(i) ==
    /\ result.trains[i].kind = "optimized"
    /\ result.trains[i].delay_minutes = 0
    /\ result.trains[i].platform = requested[i].platform

KeepingIsFeasible(i) ==
    \E c \in Candidates(requested, MAX_PLATFORMS) :
        c.arrival[i] = Arr(i) /\ c.platform[i] = requested[i].platform

C6_PriorityOneNeverMoved ==
    (Returned /\ result.status = "optimal" /\ fault = NoFault) =>
        \A i, j \in 1..N :
            ( /\ requested[i].priority = 1 /\ requested[j].priority = 3
              /\ RequestedDwellOverlap(i, j)
              /\ KeepingIsFeasible(i) ) =>
                Untouched(i) /\ ~Untouched(j)

(***************************************************************************)
(* C7.  If no assignment satisfies the no-overlap constraint within the    *)
(* horizon, get_optimized_schedule returns (it does not raise) a result    *)
(* whose trains carry exactly the requested arrival, departure and         *)
(* platform, in input order, with a failure status and a reason.           *)
(***************************************************************************)
VerbatimFallback ==
    /\ Fallback
    /\ ReasonGiven
    /\ Len(result.trains) = N
    /\ \A i \in 1..N :
          AsRequested(i) /\ result.trains[i].train_id = requested[i].train_id

\* the solver's values are an assignment within the domains that satisfies
\* the no-overlap constraint
SomeAssignmentFeasible ==
    /\ solver.status \in {"OPTIMAL", "FEASIBLE"}
    /\ Feasible(requested, MAX_PLATFORMS, solver.values)

\* stated by contraposition: a returned result that is not the verbatim
\* fallback comes with a feasible assignment
C7_InfeasibleReturnsOriginal ==
    /\ gos_outcome # "raised"
    /\ Returned => (VerbatimFallback \/ SomeAssignmentFeasible)

C7_Witness ==
    /\ Returned /\ solver.status = "INFEASIBLE"
    /\ Candidates(requested, MAX_PLATFORMS) = {}
    /\ result.status = "failed"

(***************************************************************************)
(* C8.  As claimed: every train of a fallback result (status failed or     *)
(* error) carries zero delay and its requested times and platform, also    *)
(* when the predictor annotated it before the optimizer ran.               *)
(***************************************************************************)
C8_FallbackZeroDelay ==
    (Returned /\ Fallback) =>
        \A i \in 1..Len(result.trains) :
            result.trains[i].delay_minutes = 0 /\ AsRequested(i)

(***************************************************************************)
(* C9.  get_optimized_schedule does not raise: a call that was started     *)
(* and left returned a result, and after a validation failure, a horizon   *)
(* or variable construction failure or a solver status other than OPTIMAL  *)
(* and FEASIBLE the result carries a failure status, a reason and the      *)
(* fallback mark.                                                          *)
(***************************************************************************)
InternalFailure ==
    \/ validation_issues # <<>>
    \/ fault.stage \in {"horizon", "construct"}
    \/ solver.status \in {"UNKNOWN", "INFEASIBLE", "MODEL_INVALID"}

C10_SingleTrainFailureIsolated ==
    (Returned /\ fault.stage \in {"construct", "result"}) =>
        /\ ~Fallback
        /\ \A k \in 1..Len(result.trains) :
              IF k = fault.train
              THEN result.trains[k].kind = "original" /\ AsRequested(k)
              ELSE result.trains[k].kind = "optimized"

(***************************************************************************)
(* C11.  As claimed: a batch with a validation violation (such as a train  *)
(* with priority 0, which the request model accepts) that reaches the      *)
(* optimize endpoint is rejected with no partial processing: no schedule   *)
(* derived from it is persisted, broadcast or returned by the endpoint.    *)
(***************************************************************************)
C11_InvalidBatchNotProcessed ==
    ( /\ entry = "optimize" /\ N >= 1
      /\ validate_schedule_data(requested, MAX_PLATFORMS) # <<>> ) =>
        /\ db = NoResult
        /\ broadcasts = <<>>
        /\ http # 200

(***************************************************************************)
(* C12.  As claimed: validate_schedule_data returns the aggregated list:   *)
(* for every train and every check it fails (duplicate identifier, time    *)
(* format or arrival not before departure, platform outside                *)
(* 1..MAX_PLATFORMS, priority below 1) the list has an entry, the list is  *)
(* empty exactly when no train fails any check, and the request is not     *)
(* modified.                                                               *)
(***************************************************************************)
ClockMinutes(t) == t[1] * 60 + t[2]

FailsDuplicate(i) ==
    \E j \in (1..Len(vd_given)) \ {i} :
        vd_given[j].train_id = vd_given[i].train_id

FailsTime(i) ==
    \/ ~TimeRegexOk(vd_given[i].arrival)
    \/ ~TimeRegexOk(vd_given[i].departure)
    \/ ClockMinutes(vd_given[i].arrival) >= ClockMinutes(vd_given[i].departure)

FailsPlatform(i) == vd_given[i].platform \notin 1..MAX_PLATFORMS

FailsPriority(i) == vd_given[i].priority < 1

IssueKinds(i) ==
    { vd_issues[k].kind : k \in { x \in 1..Len(vd_issues) :
                                    vd_issues[x].train = i } }

\* an entry names the duplicated identifier
DuplicateEntryFor(i) ==
    \E k \in 1..Len(vd_issues) :
        /\ vd_issues[k].kind = "duplicate"
        /\ vd_given[vd_issues[k].train].train_id = vd_given[i].train_id

AllViolationsListed ==
    \A i \in 1..Len(vd_given) :
        /\ FailsDuplicate(i) => DuplicateEntryFor(i)
        /\ FailsTime(i) =>
              IssueKinds(i) \cap {"time_format", "arrival_not_before_departure"}
                # {}
        /\ FailsPlatform(i) => "platform" \in IssueKinds(i)
        /\ FailsPriority(i) => "priority" \in IssueKinds(i)

NoTrainFails ==
    \A i \in 1..Len(vd_given) :
        ~(FailsDuplicate(i) \/ FailsTime(i) \/ FailsPlatform(i)
          \/ FailsPriority(i))

Reqs == 1..MaxRequests

\* the websockets in manager.active_connections, connected throughout
Listeners == 1..MaxListeners

NoMessage == [type |-> "none", schedule |-> None]

AsyncKinds == {"optimize", "update"}

NoSnapshot == [schedule |-> None, alerts |-> <<-1>>]

InitServer ==
    /\ MAX_PLATFORMS = 1
    /\ req_kind \in [Reqs -> {"optimize", "update", "read", "alert"}]
    /\ req_pc = [r \in Reqs |-> "waiting"]
    /\ req_http = [r \in Reqs |-> 0]
    /\ loop = 0
    /\ state_lock = 0
    /\ digital_twin_state = EmptyTwin
    /\ stored_schedule = 0
    /\ snapshot = [r \in Reqs |-> NoSnapshot]
    /\ observed = [r \in Reqs |-> NoSnapshot]
    /\ published = <<>>
    /\ message = [r \in Reqs |-> NoMessage]
    /\ sent_to = [r \in Reqs |-> 0]
    /\ received = [s \in Listeners |-> <<>>]
    /\ PipelineIdle
    /\ ValidateIdle
    /\ HubIdle
    /\ CallIdle

\* what no step of the server changes
serverFrame == <<MAX_PLATFORMS, pipelineVars, validateVars, hubVars,
                callVars>>

Goto(r, label) == req_pc' = [req_pc EXCEPT ![r] = label]
Respond(r, code) ==
    /\ req_http' = [req_http EXCEPT ![r] = code]
    /\ req_pc' = [req_pc EXCEPT ![r] = "done"]

\* manager.broadcast, lines 65-71: the for loop sends msg to the next
\* connection of the list
SendNext(r, msg) ==
    /\ received' = [received EXCEPT ![sent_to[r] + 1] = Append(@, msg)]
    /\ sent_to' = [sent_to EXCEPT ![r] = @ + 1]

\* the event loop takes the request: an async endpoint starts running on
\* the loop, a sync one is handed to a pool thread
Accept(r) ==
    /\ req_pc[r] = "waiting"
    /\ loop = 0
    /\ IF req_kind[r] \in AsyncKinds
       THEN loop' = r /\ Goto(r, "start")
       ELSE loop' = 0 /\ Goto(r, "thread")
    /\ UNCHANGED <<serverFrame, deliveryVars,
                   req_kind, req_http, state_lock,
                   digital_twin_state, stored_schedule, snapshot, observed>>

\* optimize, lines 141-143: rejected with 400
OptReject(r) ==
    /\ req_kind[r] = "optimize" /\ req_pc[r] = "start" /\ loop = r
    /\ Respond(r, 400)
    /\ loop' = 0
    /\ UNCHANGED <<serverFrame, deliveryVars,
                   req_kind, state_lock, digital_twin_state,
                   stored_schedule, snapshot, observed>>

\* optimize, lines 143-146: get_optimized_schedule is called, on the loop
OptSolveStart(r) ==
    /\ req_kind[r] = "optimize" /\ req_pc[r] = "start" /\ loop = r
    /\ Goto(r, "in_solver")
    /\ UNCHANGED <<serverFrame, deliveryVars,
                   req_kind, req_http, loop, state_lock,
                   digital_twin_state, stored_schedule, snapshot, observed>>

\* optimize, line 146: get_optimized_schedule returns
OptSolveReturn(r) ==
    /\ req_kind[r] = "optimize" /\ req_pc[r] = "in_solver" /\ loop = r
    /\ Goto(r, "save")
    /\ UNCHANGED <<serverFrame, deliveryVars,
                   req_kind, req_http, loop, state_lock,
                   digital_twin_state, stored_schedule, snapshot, observed>>

\* optimize, lines 157-161: save_schedule_to_db, 500 when it fails
OptSave(r) ==
    /\ req_kind[r] = "optimize" /\ req_pc[r] = "save" /\ loop = r
    /\ \E ok \in BOOLEAN :
          IF ok
          THEN /\ stored_schedule' = r
               \* lines 162-168: the message carries the optimized schedule;
               \* manager.broadcast sends it to the first connection and
               \* its await gives the loop up
               /\ message' = [message EXCEPT ![r] =
                                 [type |-> "schedule_updated",
                                  schedule |-> [source |-> r,
                                                enriched |-> FALSE]]]
               /\ SendNext(r, message'[r])
               /\ Goto(r, "awaiting")
               /\ loop' = 0
               /\ UNCHANGED req_http
          ELSE /\ Respond(r, 500)
               /\ loop' = 0
               /\ UNCHANGED <<stored_schedule, message, sent_to, received>>
    /\ UNCHANGED <<serverFrame, published, req_kind, state_lock,
                   digital_twin_state, snapshot, observed>>

\* optimize, lines 169-177: the broadcast is over, the response is returned
OptReturn(r) ==
    /\ req_kind[r] = "optimize" /\ req_pc[r] = "awaiting" /\ loop = 0
    /\ sent_to[r] = MaxListeners
    /\ Respond(r, 200)
    /\ UNCHANGED <<serverFrame, deliveryVars,
                   req_kind, loop, state_lock,
                   digital_twin_state, stored_schedule, snapshot, observed>>

\* update_digital_twin, line 183: with state_lock (waits while a pool
\* thread holds it, keeping the loop)
UpdAcquire(r) ==
    /\ req_kind[r] = "update" /\ req_pc[r] = "start" /\ loop = r
    /\ state_lock = 0
    /\ state_lock' = r
    /\ Goto(r, "locked")
    /\ UNCHANGED <<serverFrame, deliveryVars,
                   req_kind, req_http, loop, digital_twin_state,
                   stored_schedule, snapshot, observed>>

\* line 184: digital_twin_state["schedule"] = data.dict()
UpdSetSchedule(r) ==
    /\ req_kind[r] = "update" /\ req_pc[r] = "locked" /\ state_lock = r
    /\ digital_twin_state' =
          [digital_twin_state EXCEPT
              !.schedule = [source |-> r, enriched |-> FALSE]]
    /\ published' = Append(published, r)
    /\ Goto(r, "set")
    /\ UNCHANGED <<serverFrame, message, sent_to, received, req_kind,
                   req_http, loop, state_lock, stored_schedule, snapshot,
                   observed>>

\* line 186: the trains are replaced by the predictor's, the lock released.
\* predict_delays raises for a train whose status is None (ai_model.py
\* line 151, outside its try): the with block releases the lock, the
\* exception leaves the endpoint and the request is answered 500
UpdEnrich(r) ==
    /\ req_kind[r] = "update" /\ req_pc[r] = "set" /\ state_lock = r
    /\ state_lock' = 0
    /\ \E raises \in BOOLEAN :
          IF raises
          THEN /\ Respond(r, 500)
               /\ loop' = 0
               /\ UNCHANGED digital_twin_state
          ELSE /\ digital_twin_state' =
                     [digital_twin_state EXCEPT !.schedule.enriched = TRUE]
               /\ Goto(r, "publish")
               /\ UNCHANGED <<req_http, loop>>
    /\ UNCHANGED <<serverFrame, deliveryVars,
                   req_kind, stored_schedule,
                   snapshot, observed>>

\* lines 188-193: compute_metrics; the message carries the schedule the
\* state holds now; manager.broadcast sends it to the first connection and
\* its await gives the loop up
UpdBroadcast(r) ==
    /\ req_kind[r] = "update" /\ req_pc[r] = "publish" /\ loop = r
    /\ message' = [message EXCEPT ![r] =
                      [type |-> "digital_twin_update",
                       schedule |-> digital_twin_state.schedule]]
    /\ SendNext(r, message'[r])
    /\ loop' = 0
    /\ Goto(r, "awaiting")
    /\ UNCHANGED <<serverFrame, published, req_kind, req_http, state_lock,
                   digital_twin_state, stored_schedule, snapshot, observed>>

\* manager.broadcast, lines 68-71: the task is resumed after an await
\* connection.send_text and sends to the next connection
BroadcastNext(r) ==
    /\ req_kind[r] \in AsyncKinds /\ req_pc[r] = "awaiting" /\ loop = 0
    /\ sent_to[r] < MaxListeners
    /\ SendNext(r, message[r])
    /\ UNCHANGED <<serverFrame, published, message, req_kind, req_pc,
                   req_http, loop, state_lock, digital_twin_state,
                   stored_schedule, snapshot, observed>>

\* line 194
UpdReturn(r) ==
    /\ req_kind[r] = "update" /\ req_pc[r] = "awaiting" /\ loop = 0
    /\ sent_to[r] = MaxListeners
    /\ Respond(r, 200)
    /\ UNCHANGED <<serverFrame, deliveryVars,
                   req_kind, loop, state_lock,
                   digital_twin_state, stored_schedule, snapshot, observed>>

\* get_digital_twin_state, lines 199-203, in a pool thread: under the lock
\* it returns the dict digital_twin_state itself (no copy) or raises 404
ReadLocked(r) ==
    /\ req_kind[r] = "read" /\ req_pc[r] = "thread"
    /\ state_lock = 0
    /\ state_lock' = r
    /\ IF digital_twin_state.schedule # None
       THEN /\ snapshot' = [snapshot EXCEPT ![r] = digital_twin_state]
            /\ Goto(r, "returning")
       ELSE /\ UNCHANGED snapshot
            /\ Goto(r, "raising")
    /\ UNCHANGED <<serverFrame, deliveryVars,
                   req_kind, req_http, loop, digital_twin_state,
                   stored_schedule, observed>>

\* leaving the with block
ReadRelease(r) ==
    /\ req_kind[r] = "read" /\ req_pc[r] \in {"returning", "raising"}
    /\ state_lock = r
    /\ state_lock' = 0
    /\ Goto(r, IF req_pc[r] = "returning" THEN "respond" ELSE "respond404")
    /\ UNCHANGED <<serverFrame, deliveryVars,
                   req_kind, req_http, loop, digital_twin_state,
                   stored_schedule, snapshot, observed>>

\* the event loop serializes what the thread returned: the dict as it is
\* by now
ReadRespond(r) ==
    /\ req_kind[r] = "read" /\ req_pc[r] \in {"respond", "respond404"}
    /\ loop = 0
    /\ IF req_pc[r] = "respond"
       THEN /\ observed' = [observed EXCEPT ![r] = digital_twin_state]
            /\ Respond(r, 200)
       ELSE /\ UNCHANGED observed
            /\ Respond(r, 404)
    /\ UNCHANGED <<serverFrame, deliveryVars,
                   req_kind, loop, state_lock,
                   digital_twin_state, stored_schedule, snapshot>>

\* post_alert, lines 274-275, in a pool thread: save_alert
AlertSave(r) ==
    /\ req_kind[r] = "alert" /\ req_pc[r] = "thread"
    /\ \E ok \in BOOLEAN :
          Goto(r, IF ok THEN "stored" ELSE "respond500")
    /\ UNCHANGED <<serverFrame, deliveryVars,
                   req_kind, req_http, loop, state_lock,
                   digital_twin_state, stored_schedule, snapshot, observed>>

\* lines 277-278: the alert is appended under the lock
AlertAppend(r) ==
    /\ req_kind[r] = "alert" /\ req_pc[r] = "stored"
    /\ state_lock = 0
    /\ state_lock' = r
    /\ digital_twin_state' =
          [digital_twin_state EXCEPT !.alerts = Append(@, r)]
    /\ Goto(r, "appended")
    /\ UNCHANGED <<serverFrame, deliveryVars,
                   req_kind, req_http, loop, stored_schedule,
                   snapshot, observed>>

AlertRelease(r) ==
    /\ req_kind[r] = "alert" /\ req_pc[r] = "appended" /\ state_lock = r
    /\ state_lock' = 0
    /\ Goto(r, "respond")
    /\ UNCHANGED <<serverFrame, deliveryVars,
                   req_kind, req_http, loop, digital_twin_state,
                   stored_schedule, snapshot, observed>>

\* lines 279-281: the event loop sends the response
AlertRespond(r) ==
    /\ req_kind[r] = "alert" /\ req_pc[r] \in {"respond", "respond500"}
    /\ loop = 0
    /\ Respond(r, IF req_pc[r] = "respond" THEN 200 ELSE 500)
    /\ UNCHANGED <<serverFrame, deliveryVars,
                   req_kind, loop, state_lock,
                   digital_twin_state, stored_schedule, snapshot, observed>>

NextServer ==
    \/ \E r \in Reqs : Accept(r)
    \/ \E r \in Reqs : OptReject(r)
    \/ \E r \in Reqs : OptSolveStart(r)
    \/ \E r \in Reqs : OptSolveReturn(r)
    \/ \E r \in Reqs : OptSave(r)
    \/ \E r \in Reqs : OptReturn(r)
    \/ \E r \in Reqs : UpdAcquire(r)
    \/ \E r \in Reqs : UpdSetSchedule(r)
    \/ \E r \in Reqs : UpdEnrich(r)
    \/ \E r \in Reqs : UpdBroadcast(r)
    \/ \E r \in Reqs : BroadcastNext(r)
    \/ \E r \in Reqs : UpdReturn(r)
    \/ \E r \in Reqs : ReadLocked(r)
    \/ \E r \in Reqs : ReadRelease(r)
    \/ \E r \in Reqs : ReadRespond(r)
    \/ \E r \in Reqs : AlertSave(r)
    \/ \E r \in Reqs : AlertAppend(r)
    \/ \E r \in Reqs : AlertRelease(r)
    \/ \E r \in Reqs : AlertRespond(r)

SpecServer == InitServer /\ [][NextServer]_vars

(***************************************************************************)
(* main.py: ConnectionManager and websocket_endpoint.  Up to               *)
(* MaxSubscribers websockets connect and disconnect while up to            *)
(* MaxBroadcasts broadcasts run, one after the other.                      *)
(***************************************************************************)
Subs == 1..MaxSubscribers

Established == [type |-> "connection_established", id |-> 0]
Broadcast(b) == [type |-> "broadcast", id |-> b]

\* the elements of a list
Range(seq) == { seq[k] : k \in 1..Len(seq) }

\* list.remove(x): the list without its first x
Remove(seq, x) ==
    LET k == CHOOSE i \in 1..Len(seq) :
                 seq[i] = x /\ \A j \in 1..(i - 1) : seq[j] # x
    IN  [i \in 1..(Len(seq) - 1) |-> IF i < k THEN seq[i] ELSE seq[i + 1]]

\* a disconnect that takes the websocket off the list and keeps its id
disconnect_keeps_id(conns, ids, ws) ==
    IF ws \in Range(conns)
    THEN [active_connections |-> Remove(conns, ws), connection_ids |-> ids]
    ELSE [active_connections |-> conns, connection_ids |-> ids]

\* ConnectionManager.disconnect, lines 59-63, on the manager's two fields
disconnect(conns, ids, ws) ==
    IF ws \in Range(conns)
    THEN [active_connections |-> Remove(conns, ws),
          connection_ids |-> ids \ {ws}]
    ELSE [active_connections |-> conns, connection_ids |-> ids]

RECURSIVE disconnect_all(_, _, _)
disconnect_all(conns, ids, failed) ==
    IF failed = <<>>
    THEN [active_connections |-> conns, connection_ids |-> ids]
    ELSE LET m == disconnect(conns, ids, Head(failed))
         IN  disconnect_all(m.active_connections, m.connection_ids,
                            Tail(failed))

\* a greeting that replays the broadcast that returned last
GreetingWithReplay(last) ==
    IF last = 0 THEN <<Established>> ELSE <<Established, Broadcast(last)>>

\* websocket_endpoint, lines 297-302: what the endpoint sends on connect;
\* last is the broadcast that returned last (0: none)
GreetingMessages(last) == <<Established>>

InitHub ==
    /\ MAX_PLATFORMS = 1
    /\ ws_state = [s \in Subs |-> "new"]
    /\ send_mode \in [Subs -> {"ok", "fail", "stall"}]
    /\ inbox = [s \in Subs |-> <<>>]
    /\ active_connections = <<>>
    /\ connection_ids = {}
    /\ bc_pc = "idle" /\ bc_id = 0 /\ bc_index = 0
    /\ bc_failed = <<>> /\ bc_at_start = {} /\ bc_left = {}
    /\ bc_joined = {}
    /\ done_at_connect = [s \in Subs |-> {}]
    /\ PipelineIdle
    /\ ValidateIdle
    /\ ServerIdle
    /\ CallIdle

\* what no step of the hub changes
hubFrame == <<MAX_PLATFORMS, pipelineVars, validateVars, serverVars,
              callVars, send_mode>>

\* the broadcasts that have returned
Returned_broadcasts == 1..(IF bc_pc = "idle" THEN bc_id ELSE bc_id - 1)

\* ConnectionManager.connect, lines 50-57 (after accept)
Connect(s) ==
    /\ ws_state[s] = "new"
    /\ active_connections' = Append(active_connections, s)
    /\ connection_ids' = connection_ids \cup {s}
    /\ ws_state' = [ws_state EXCEPT ![s] = "greeting"]
    /\ done_at_connect' = [done_at_connect EXCEPT ![s] = Returned_broadcasts]
    /\ bc_joined' = bc_joined \cup {s}
    /\ UNCHANGED <<hubFrame, inbox, bc_pc, bc_id, bc_index, bc_failed,
                   bc_at_start, bc_left>>

\* websocket_endpoint, lines 297-302: the connection_established message;
\* a send that raises ends the task through line 313-315
Greet(s) ==
    /\ ws_state[s] = "greeting"
    /\ send_mode[s] # "stall"
    /\ IF send_mode[s] = "ok"
       THEN /\ inbox' = [inbox EXCEPT
                            ![s] = @ \o GreetingMessages(
                                          IF Returned_broadcasts = {} THEN 0
                                          ELSE Max(Returned_broadcasts))]
            /\ ws_state' = [ws_state EXCEPT ![s] = "open"]
            /\ UNCHANGED <<active_connections, connection_ids, bc_left>>
       ELSE LET m == disconnect(active_connections, connection_ids, s)
            IN  /\ active_connections' = m.active_connections
                /\ connection_ids' = m.connection_ids
                /\ ws_state' = [ws_state EXCEPT ![s] = "gone"]
                /\ bc_left' = bc_left \cup {s}
                /\ UNCHANGED inbox
    /\ UNCHANGED <<hubFrame, bc_pc, bc_id, bc_index, bc_failed, bc_at_start,
                   bc_joined, done_at_connect>>

\* websocket_endpoint, lines 303-312: receive_text raises
\* (the ping/pong exchange of the loop touches neither the manager nor
\* a broadcast and is left out)
\* WebSocketDisconnect and the task calls manager.disconnect
Disconnect(s) ==
    /\ ws_state[s] = "open"
    /\ LET m == disconnect(active_connections, connection_ids, s)
       IN  /\ active_connections' = m.active_connections
           /\ connection_ids' = m.connection_ids
    /\ ws_state' = [ws_state EXCEPT ![s] = "gone"]
    /\ bc_left' = bc_left \cup {s}
    /\ UNCHANGED <<hubFrame, inbox, bc_pc, bc_id, bc_index, bc_failed,
                   bc_at_start, bc_joined, done_at_connect>>

\* ConnectionManager.broadcast, lines 65-68: with no connection it returns
\* at once, otherwise the for loop starts over the list itself
BroadcastStart ==
    /\ bc_pc = "idle"
    /\ bc_id < MaxBroadcasts
    /\ bc_id' = bc_id + 1
    /\ bc_pc' = IF active_connections = <<>> THEN "idle" ELSE "sending"
    /\ bc_index' = 0
    /\ bc_failed' = <<>>
    /\ bc_at_start' = Range(active_connections)
    /\ bc_left' = {}
    /\ bc_joined' = {}
    /\ UNCHANGED <<hubFrame, ws_state, inbox, active_connections,
                   connection_ids, done_at_connect>>

\* lines 69-74: the list iterator yields the element at its position, if
\* the list is that long by now, and the message is sent to it; a send
\* that never completes leaves the task in this await
BroadcastSend ==
    /\ bc_pc = "sending"
    /\ bc_index < Len(active_connections)
    /\ LET connection == active_connections[bc_index + 1]
       IN  /\ send_mode[connection] # "stall"
           /\ IF send_mode[connection] = "ok"
              THEN /\ inbox' = [inbox EXCEPT
                                  ![connection] = Append(@, Broadcast(bc_id))]
                   /\ UNCHANGED bc_failed
              ELSE /\ bc_failed' = Append(bc_failed, connection)
                   /\ UNCHANGED inbox
    /\ bc_index' = bc_index + 1
    /\ UNCHANGED <<hubFrame, ws_state, active_connections, connection_ids,
                   bc_pc, bc_id, bc_at_start, bc_left, bc_joined,
                   done_at_connect>>

\* lines 75-76: the iterator is exhausted; the failed connections are
\* disconnected and broadcast returns
BroadcastPrune ==
    /\ bc_pc = "sending"
    /\ bc_index >= Len(active_connections)
    /\ LET m == disconnect_all(active_connections, connection_ids, bc_failed)
       IN  /\ active_connections' = m.active_connections
           /\ connection_ids' = m.connection_ids
    /\ bc_pc' = "idle"
    /\ UNCHANGED <<hubFrame, ws_state, inbox, bc_id, bc_index, bc_failed,
                   bc_at_start, bc_left, bc_joined, done_at_connect>>

NextHub ==
    \/ \E s \in Subs : Connect(s)
    \/ \E s \in Subs : Greet(s)
    \/ \E s \in Subs : Disconnect(s)
    \/ BroadcastStart
    \/ BroadcastSend
    \/ BroadcastPrune

SpecHub == InitHub /\ [][NextHub]_vars

\* the event loop runs a task that can run
FairSpecHub ==
    SpecHub /\ WF_vars(BroadcastSend) /\ WF_vars(BroadcastPrune)

(***************************************************************************)
(* C13.  As claimed, in the case most favourable to the claim (no other    *)
(* request publishes): after a successful optimize call the shared         *)
(* schedule state (digital twin) holds that call's schedule, so a read of  *)
(* the current state returns it.                                           *)
(***************************************************************************)
SucceededOptimize(r) ==
    req_kind[r] = "optimize" /\ req_pc[r] = "done" /\ req_http[r] = 200

C13_TwinHoldsLastOptimized ==
    \A r \in DOMAIN req_kind :
        ( /\ SucceededOptimize(r)
          /\ \A q \in (DOMAIN req_kind) \ {r} :
                req_kind[q] \notin {"optimize", "update"} ) =>
            digital_twin_state.schedule.source = r

(***************************************************************************)
(* C14.  As claimed: the schedule and alert list a read of the shared      *)
(* state ends up observing are the values the state had at one instant     *)
(* while the reader held the lock, also with publishes and alert appends   *)
(* running concurrently: never a half-applied publish, never a value       *)
(* changed after the lock was released.                                    *)
(***************************************************************************)
C14_ReadIsSnapshotUnderLock ==
    \A r \in DOMAIN req_kind :
        (req_kind[r] = "read" /\ req_pc[r] = "done" /\ req_http[r] = 200) =>
            /\ observed[r] = snapshot[r]
            /\ observed[r].schedule.enriched

(***************************************************************************)
(* C19.  As claimed: while one optimize request is inside the solver, the  *)
(* server can still accept every waiting request and complete every        *)
(* request a pool thread has finished.                                     *)
(***************************************************************************)
InsideSolver == \E r \in DOMAIN req_kind : req_pc[r] = "in_solver"

C19_SolveDoesNotStallIntake ==
    InsideSolver =>
        \A q \in DOMAIN req_kind :
            /\ req_pc[q] = "waiting" => ENABLED Accept(q)
            /\ (req_kind[q] = "read" /\ req_pc[q] \in {"respond", "respond404"})
                  => ENABLED ReadRespond(q)
            /\ (req_kind[q] = "alert" /\ req_pc[q] \in {"respond", "respond500"})
                  => ENABLED AlertRespond(q)

(***************************************************************************)
(* Vocabulary of the properties of the websocket hub.                      *)
(***************************************************************************)
\* how many times the client of s received the message of broadcast b
Received(s, b) ==
    Cardinality({ k \in 1..Len(inbox[s]) : inbox[s][k] = Broadcast(b) })

\* the broadcast started last has returned to its caller
BroadcastReturned == bc_pc = "idle" /\ bc_id >= 1

\* s was registered when the last broadcast started, has not disconnected
\* since, and sends to it succeed
StayedHealthy(s) ==
    /\ s \in bc_at_start
    /\ s \notin bc_left
    /\ send_mode[s] = "ok"

(***************************************************************************)
(* C15. When a broadcast has returned, every subscriber that was connected *)
(* when it started, stayed connected and accepts sends has received that   *)
(* broadcast's message exactly once, whatever other subscribers did during *)
(* the broadcast.                                                          *)
(***************************************************************************)
C15_HealthySubscriberReceivesOnce ==
    BroadcastReturned =>
        \A s \in Subs : StayedHealthy(s) => Received(s, bc_id) = 1

(***************************************************************************)
(* C16. A send that fails does not end the broadcast: the loop goes on to  *)
(* the next subscriber and the broadcast returns.  When it has returned,   *)
(* every subscriber whose send failed is off the active list and out of    *)
(* the id registry, every subscriber that received the message and did not *)
(* disconnect by itself is still on the list and in the registry, and, if  *)
(* no subscriber disconnected by itself meanwhile, every subscriber that   *)
(* was connected at the start and accepts sends received the message once. *)
(***************************************************************************)
FailingNext ==
    /\ bc_pc = "sending"
    /\ bc_index < Len(active_connections)
    /\ send_mode[active_connections[bc_index + 1]] = "fail"

C16_FailedSubscriberPruned ==
    /\ FailingNext => ENABLED BroadcastSend
    /\ (bc_pc = "sending" /\ bc_index >= Len(active_connections))
           => ENABLED BroadcastPrune
    /\ BroadcastReturned =>
           /\ \A s \in Range(bc_failed) :
                  /\ s \notin Range(active_connections)
                  /\ s \notin connection_ids
           /\ \A s \in Subs :
                  (Received(s, bc_id) >= 1 /\ s \notin bc_left) =>
                      /\ Received(s, bc_id) = 1
                      /\ s \in Range(active_connections)
                      /\ s \in connection_ids
           /\ bc_left = {} =>
                  \A s \in bc_at_start :
                      send_mode[s] = "ok" => Received(s, bc_id) = 1

\* a broadcast returned after a send failed and another one succeeded
C16_Witness ==
    /\ BroadcastReturned
    /\ bc_failed # <<>>
    /\ bc_left = {}
    /\ \E s \in bc_at_start :
           /\ Received(s, bc_id) = 1
           /\ s \in connection_ids
           /\ \E f \in Range(bc_failed) : f \in bc_at_start

(***************************************************************************)
(* C17. A broadcast whose list holds a subscriber whose send never         *)
(* completes still returns to its caller, with that subscriber pruned and  *)
(* the message delivered to every other subscriber that stayed connected   *)
(* and accepts sends.                                                      *)
(***************************************************************************)
StalledListed ==
    \E s \in Range(active_connections) : send_mode[s] = "stall"

C17_StalledSubscriberPruned ==
    (bc_pc = "sending" /\ StalledListed) ~>
        /\ BroadcastReturned
        /\ ~StalledListed
        /\ \A s \in Subs : StayedHealthy(s) => Received(s, bc_id) >= 1

(***************************************************************************)
(* C18. No replay: no subscriber ever receives the message of a broadcast  *)
(* that had returned when it connected; it receives connection_established *)
(* at most once, and as long as no broadcast started after it connected,   *)
(* that is all a greeted subscriber has received.                          *)
(***************************************************************************)
C18_NoReplay ==
    \A s \in Subs :
        /\ \A k \in 1..Len(inbox[s]) :
               inbox[s][k] # Established =>
                   /\ inbox[s][k].type = "broadcast"
                   /\ inbox[s][k].id \notin done_at_connect[s]
        /\ Cardinality({ k \in 1..Len(inbox[s]) :
                           inbox[s][k] = Established }) <= 1
        /\ (/\ ws_state[s] = "open"
            /\ bc_pc = "idle"
            /\ done_at_connect[s] = Returned_broadcasts)
               => inbox[s] = <<Established>>

\* a subscriber connected after a broadcast that another subscriber
\* received had returned, and has been greeted
C18_Witness ==
    \E s \in Subs :
        /\ ws_state[s] = "open"
        /\ inbox[s] = <<Established>>
        /\ \E b \in done_at_connect[s] :
               \E t \in Subs : Received(t, b) = 1

(***************************************************************************)
(* C20. Every call of get_optimized_schedule returns.  When the solver     *)
(* stops without a proven optimum the call returns the solution found      *)
(* (FEASIBLE), with status "feasible", or the fallback result (UNKNOWN),   *)
(* with status "failed" and the trains as requested.                       *)
(***************************************************************************)
Called == pc \in {"gos_validate", "gos_build", "gos_solve", "gos_process"}

C20_CallReturns ==
    /\ Called ~> Returned
    /\ [](Returned /\ solver.status = "FEASIBLE" =>
              result.status \in {"feasible", "error"})
    /\ [](Returned /\ solver.status = "UNKNOWN" =>
              /\ result.status = "failed"
              /\ result.fallback_used
              /\ Len(result.trains) = Len(trains))

\* the budget ran out on a schedule that has a solution, and the call
\* returned the fallback result
C20_Witness ==
    /\ Returned
    /\ solver.status = "UNKNOWN"
    /\ result.status = "failed"
    /\ Len(trains) >= 2
    /\ Candidates(trains, MAX_PLATFORMS) # {}

(***************************************************************************)
(* C21. A delay or status the predictor has set on a train before the      *)
(* optimization, when it is not the default (delay 0, status "scheduled"), *)
(* is still the delay or status of that train in the optimized result.     *)
(***************************************************************************)
PredictorSetDelay(i) ==
    /\ trains[i].delay_minutes # requested[i].delay_minutes
    /\ trains[i].delay_minutes # 0

PredictorSetStatus(i) ==
    /\ trains[i].status # requested[i].status
    /\ trains[i].status # "scheduled"

C21_PredictedValueKept ==
    (Returned /\ result.status \in {"optimal", "feasible"}) =>
        \A i \in 1..N :
            result.trains[i].kind = "optimized" =>
                /\ PredictorSetDelay(i) =>
                       result.trains[i].delay_minutes = trains[i].delay_minutes
                /\ PredictorSetStatus(i) =>
                       result.trains[i].status = trains[i].status

(***************************************************************************)
(* C22. In an optimized result the delay of every train the solver placed  *)
(* is its assigned arrival minus its requested arrival, is not negative,   *)
(* and its status is the bucket of that delay: "on_time" up to 5 minutes,  *)
(* "minor_delay" above 5 and up to 15, "delayed" above 15.                 *)
(***************************************************************************)
C22_DelayAndStatusBucket ==
    (Returned /\ result.status \in {"optimal", "feasible"}) =>
        \A i \in 1..N :
            result.trains[i].kind = "optimized" =>
                /\ result.trains[i].delay_minutes
                     = solver.values.arrival[i]
                       - time_to_minutes(requested[i].arrival)
                /\ result.trains[i].delay_minutes >= 0
                /\ result.trains[i].status
                     = StatusOfDelay(result.trains[i].delay_minutes)

(***************************************************************************)
(* scheduler.py, line 189: priority_weight computed for two priorities.    *)
(***************************************************************************)
Priorities == 0..MaxPriority

\* what is common to the runs that call one function on its own
CallFrame == <<MAX_PLATFORMS, pipelineVars, validateVars, serverVars,
               hubVars, fn_name, fn_args>>

InitWeight ==
    /\ MAX_PLATFORMS = 1
    /\ fn_name = "priority_weight"
    /\ fn_args \in Priorities \X Priorities
    /\ fn_rets = <<>>
    /\ PipelineIdle /\ ValidateIdle /\ ServerIdle /\ HubIdle

WeightCall ==
    /\ fn_name = "priority_weight"
    /\ Len(fn_rets) < Len(fn_args)
    /\ fn_rets' = Append(fn_rets, priority_weight(fn_args[Len(fn_rets) + 1]))
    /\ UNCHANGED CallFrame

NextWeight == WeightCall

SpecWeight == InitWeight /\ [][NextWeight]_vars

\* the priorities the request model and validate_schedule_data accept
AcceptedPriority(p) == p >= 0 /\ p >= 1

BothWeighed ==
    /\ fn_name = "priority_weight" /\ Len(fn_rets) = 2
    /\ AcceptedPriority(fn_args[1]) /\ AcceptedPriority(fn_args[2])

(***************************************************************************)
(* C23. For any two accepted priorities p < q the weight of p is strictly  *)
(* greater than the weight of q.                                           *)
(***************************************************************************)
C23_WeightStrictlyDecreasing ==
    (BothWeighed /\ fn_args[1] < fn_args[2]) => fn_rets[1] > fn_rets[2]

(***************************************************************************)
(* scheduler.py: get_optimized_schedule called MaxRuns times on the same   *)
(* request, one the endpoint accepts.  No step of the optimizer fails in   *)
(* these runs.                                                             *)
(***************************************************************************)
TiePool ==
    { Train("", <<8, 0>>, <<8, 5>>,  1, 1),
      Train("", <<8, 5>>, <<8, 10>>, 1, 1),
      Train("", <<8, 5>>, <<8, 10>>, 3, 1),
      Train("", <<8, 0>>, <<8, 5>>,  1, 2) }

TieRequests ==
    { <<[a EXCEPT !.train_id = TrainIds[1]],
        [b EXCEPT !.train_id = TrainIds[2]]>> : a \in TiePool, b \in TiePool }

InitRuns ==
    /\ MAX_PLATFORMS \in 1..MaxPlatformConfig
    /\ fn_name = "get_optimized_schedule"
    /\ fn_args \in TieRequests
    /\ ScheduleRequestValid(fn_args, MAX_PLATFORMS)
    /\ check_for_overlaps(fn_args) = <<>>
    /\ validate_schedule_data(fn_args, MAX_PLATFORMS) = <<>>
    /\ fn_rets = <<>>
    /\ PipelineIdle /\ ValidateIdle /\ ServerIdle /\ HubIdle

\* lines 212-304: the solver's answer and the result built from it
OptimizerRun ==
    /\ fn_name = "get_optimized_schedule"
    /\ Len(fn_rets) < MaxRuns
    /\ \E o \in SolverOutcomes(fn_args, MAX_PLATFORMS, {}) :
          fn_rets' = Append(fn_rets,
              IF o.status \in {"OPTIMAL", "FEASIBLE"}
              THEN SolutionResult(fn_args, o.status, o.values, 0)
              ELSE FailedResult(fn_args, o.status))
    /\ UNCHANGED CallFrame

NextRuns == OptimizerRun

SpecRuns == InitRuns /\ [][NextRuns]_vars

\* two runs on the same request both ended with a proven optimum
TwoOptimalRuns ==
    /\ fn_name = "get_optimized_schedule"
    /\ Len(fn_rets) = 2
    /\ fn_rets[1].status = "optimal" /\ fn_rets[2].status = "optimal"

\* in a result, train i kept its requested platform and arrival
KeptSlot(res, i) ==
    /\ res.trains[i].platform = fn_args[i].platform
    /\ res.trains[i].arrival = fn_args[i].arrival

(***************************************************************************)
(* C24. Two runs of the optimizer on the same request that both prove an   *)
(* optimum return the same platform and the same arrival for every train,  *)
(* and when one of two trains of equal weight is moved in one run and the  *)
(* other one in the other run, neither happens: the train earlier in the   *)
(* input keeps its slot in both.                                           *)
(***************************************************************************)
C24_DeterministicOnTies ==
    TwoOptimalRuns =>
        /\ \A i \in 1..Len(fn_args) :
              /\ fn_rets[1].trains[i].platform = fn_rets[2].trains[i].platform
              /\ fn_rets[1].trains[i].arrival = fn_rets[2].trains[i].arrival
        /\ \A i, j \in 1..Len(fn_args) :
              ( /\ i < j
                /\ priority_weight(fn_args[i].priority)
                     = priority_weight(fn_args[j].priority)
                /\ \E k \in 1..2 : KeptSlot(fn_rets[k], i)
                                   /\ ~KeptSlot(fn_rets[k], j) )
              => \A k \in 1..2 : KeptSlot(fn_rets[k], i)

(***************************************************************************)
(* ai_model.py: compute_metrics called on a list of up to MaxMetricTrains  *)
(* train dicts.                                                            *)
(***************************************************************************)
AbsentField == [kind |-> "absent", value |-> <<0, 0>>]
NullField == [kind |-> "null", value |-> <<0, 0>>]
NoDelay == [kind |-> "absent", value |-> 0]
NullDelay == [kind |-> "null", value |-> 0]
TextDelay == [kind |-> "str", value |-> 0]

DictPool ==
    [arrival : {StrTime(<<8, 0>>), StrTime(<<24, 0>>), AbsentField, NullField},
     departure : {StrTime(<<8, 30>>), NullField},
     platform : {1},
     delay_minutes : {NoDelay, NullDelay, TextDelay, IntDelay(3),
                      IntDelay(10)},
     status : {"on_time", "delayed", NullText}]

MetricInputs == UNION { [1..n -> DictPool] : n \in 1..MaxMetricTrains }

InitMetrics ==
    /\ MAX_PLATFORMS = 1
    /\ fn_name = "compute_metrics"
    /\ fn_args \in MetricInputs
    /\ fn_rets = <<>>
    /\ PipelineIdle /\ ValidateIdle /\ ServerIdle /\ HubIdle

MetricsCall ==
    /\ fn_name = "compute_metrics"
    /\ fn_rets = <<>>
    /\ fn_rets' = <<compute_metrics_of(fn_args, MAX_PLATFORMS)>>
    /\ UNCHANGED CallFrame

NextMetrics == MetricsCall

SpecMetrics == InitMetrics /\ [][NextMetrics]_vars

\* compute_metrics was called and ended, by a return or by an exception
MetricsEnded == fn_name = "compute_metrics" /\ fn_rets # <<>>

MetricsReturned == MetricsEnded /\ ~fn_rets[1].raised

Kpis == fn_rets[1].metrics

\* the trains the KPIs should count as punctual by the delay alone
PunctualByDelay ==
    { i \in 1..Len(fn_args) :
        /\ fn_args[i].delay_minutes.kind = "int"
        /\ fn_args[i].delay_minutes.value <= PUNCTUAL_LIMIT }

AllDelaysNumeric ==
    \A i \in 1..Len(fn_args) : fn_args[i].delay_minutes.kind = "int"

(***************************************************************************)
(* C25. When every train has a numeric delay, compute_metrics returns      *)
(* punctuality = 100 x (trains with delay <= 5) / (number of trains),      *)
(* whatever the status texts are; one train with a 10-minute delay and     *)
(* status "on_time" gives average delay 10 and punctuality 0.              *)
(***************************************************************************)
C25_PunctualityFromDelay ==
    (MetricsEnded /\ AllDelaysNumeric) =>
        /\ MetricsReturned
        /\ Kpis.punctuality_pct
             = RoundDiv(Cardinality(PunctualByDelay) * 100 * 100,
                        Len(fn_args))
        /\ ( /\ Len(fn_args) = 1
             /\ fn_args[1].delay_minutes.value = 10
             /\ fn_args[1].status = "on_time" )
           => (Kpis.avg_delay_minutes = 1000 /\ Kpis.punctuality_pct = 0)

\* every train's arrival and departure are strings strptime parses
AllTimesParse ==
    \A i \in 1..Len(fn_args) : TimeOutcome(fn_args[i]) = "ok"

(***************************************************************************)
(* C25, amended.  When compute_metrics returns for trains that all have a  *)
(* numeric delay, punctuality = 100 x (trains with delay <= 5 whose        *)
(* arrival and departure parse as HH:MM) / (number of trains), whatever    *)
(* the status texts are: a train whose time data does not parse is counted *)
(* in the total only.  One train with parsed times, a 10-minute delay and  *)
(* status "on_time" gives average delay 10 and punctuality 0.              *)
(***************************************************************************)
C25_PunctualityFromDelayOfParsedTrains ==
    (MetricsReturned /\ AllDelaysNumeric) =>
        /\ Kpis.punctuality_pct
             = RoundDiv(Cardinality({ i \in PunctualByDelay :
                                        TimeOutcome(fn_args[i]) = "ok" })
                        * 100 * 100, Len(fn_args))
        /\ ( /\ Len(fn_args) = 1
             /\ AllTimesParse
             /\ fn_args[1].delay_minutes.value = 10
             /\ fn_args[1].status = "on_time" )
           => (Kpis.avg_delay_minutes = 1000 /\ Kpis.punctuality_pct = 0)

\* the metrics of one train with a 10-minute delay and status "on_time"
C25_Witness ==
    /\ MetricsReturned
    /\ Len(fn_args) = 1
    /\ AllTimesParse
    /\ fn_args[1].delay_minutes = IntDelay(10)
    /\ fn_args[1].status = "on_time"
    /\ Kpis.punctuality_pct = 0

\* the processed trains that carry a numeric delay value
CarriesNumericDelay ==
    { i \in 1..Len(fn_args) :
        /\ TimeOutcome(fn_args[i]) = "ok"
        /\ fn_args[i].delay_minutes.kind = "int" }

(***************************************************************************)
(* C26.  In compute_metrics, a train lacking a numeric delay (delay key    *)
(* absent, null, or non-numeric) is excluded from the average-delay mean   *)
(* rather than counted as a zero delay: the average is the mean over the   *)
(* processed trains that carry a numeric delay (0 when there is none),     *)
(* whatever the status texts are.                                          *)
(***************************************************************************)
C26_NoDelayExcludedFromMean ==
    MetricsReturned =>
        Kpis.avg_delay_minutes
          = IF CarriesNumericDelay = {} THEN 0
            ELSE RoundDiv(SumOver([i \in 1..Len(fn_args) |->
                                      fn_args[i].delay_minutes.value],
                                  CarriesNumericDelay) * 100,
                          Cardinality(CarriesNumericDelay))

(***************************************************************************)
(* C27.  compute_metrics always completes and returns its four KPIs for    *)
(* any non-empty train list, whatever is malformed in a train's time data  *)
(* (arrival or departure key missing, null, or not a valid HH:MM string):  *)
(* a call that has ended has ended by a return.                            *)
(***************************************************************************)
C27_MetricsAlwaysReturn ==
    (MetricsEnded /\ Len(fn_args) > 0) => MetricsReturned

\* two trains requesting one platform whose literal requested intervals
\* overlap: the one arriving first (or at the same minute) departs strictly
\* after the other arrives
PairOverlaps(i, j) ==
    /\ i # j
    /\ requested[i].platform = requested[j].platform
    /\ Arr(i) <= Arr(j)
    /\ Dep(i) > Arr(j)

AnyPairOverlaps == \E i, j \in 1..N : PairOverlaps(i, j)

\* the batch was refused by the overlap check, before validation and solve
RejectedForOverlap ==
    /\ conflicts # <<>>
    /\ http = 400 /\ pc = "done"
    /\ calls = <<"check_for_overlaps">>

NamedInConflict(i) ==
    \E k \in 1..Len(conflicts) :
        /\ conflicts[k].platform = requested[i].platform
        /\ requested[i].train_id \in {conflicts[k].train1, conflicts[k].train2}

(***************************************************************************)
(* C29.  check_for_overlaps, although it compares only pairs adjacent in   *)
(* arrival order, rejects a batch if and only if some two trains (adjacent *)
(* or not) request the same platform with literally overlapping intervals  *)
(* (the earlier one's departure strictly after the other's arrival); and   *)
(* trains tied in arrival time on one platform are always reported: the    *)
(* batch is rejected and each of the tied trains is named in a conflict.   *)
(***************************************************************************)
C29_RejectsIffAnyPairOverlaps ==
    (entry = "optimize" /\ pc # "optimize") =>
        /\ RejectedForOverlap <=> AnyPairOverlaps
        /\ conflicts # <<>> <=> AnyPairOverlaps
        /\ \A i, j \in 1..N :
              ( /\ i # j
                /\ requested[i].platform = requested[j].platform
                /\ Arr(i) = Arr(j) )
              => (RejectedForOverlap /\ NamedInConflict(i) /\ NamedInConflict(j))

\* a batch rejected although its only overlapping pairs are not adjacent in
\* arrival order with the train between them clear of the later one
C29_Witness ==
    /\ entry = "optimize" /\ RejectedForOverlap
    /\ \E i, j, k \in 1..N :
          /\ PairOverlaps(i, j)
          /\ requested[k].platform = requested[i].platform
          /\ Arr(i) < Arr(k) /\ Arr(k) < Arr(j)
          /\ Dep(k) <= Arr(j)

(***************************************************************************)
(* Vocabulary of the properties of publish and broadcast.                  *)
(***************************************************************************)
\* the position of request r among the publishes (0: it never published)
PublishIndex(r) ==
    IF \E k \in 1..Len(published) : published[k] = r
    THEN CHOOSE k \in 1..Len(published) : published[k] = r
    ELSE 0

\* the digital_twin_update messages listener s received, as the requests
\* whose schedule they carry
UpdatesReceived(s) ==
    SelectSeq([k \in 1..Len(received[s]) |->
                  IF received[s][k].type = "digital_twin_update"
                  THEN received[s][k].schedule.source ELSE 0],
              LAMBDA x : x # 0)

\* an update is between its publish and the end of its broadcast
UpdateInFlight ==
    \E r \in Reqs :
        req_kind[r] = "update" /\ req_pc[r] \in {"set", "publish", "awaiting"}

FailedUpdate(r) ==
    req_kind[r] = "update" /\ req_pc[r] = "done" /\ req_http[r] = 500

(***************************************************************************)
(* C28.  As claimed: publish and broadcast form one exclusive step.  When  *)
(* two publishes A and B replace the shared state in that order, every     *)
(* listener receives A's broadcast message before B's; so, once no update  *)
(* is under way (and none failed), the last update message a listener      *)
(* received carries the schedule the shared state holds.                   *)
(***************************************************************************)
C28_PublishAndBroadcastExclusive ==
    \A s \in DOMAIN received :
        LET u == UpdatesReceived(s)
        IN  /\ \A i, j \in 1..Len(u) :
                  i < j => PublishIndex(u[i]) < PublishIndex(u[j])
            /\ ( /\ ~UpdateInFlight
                 /\ ~\E r \in Reqs : FailedUpdate(r)
                 /\ u # <<>> )
               => u[Len(u)] = digital_twin_state.schedule.source

(***************************************************************************)
(* C30.  As claimed: a digital-twin update that fails part-way (delay      *)
(* prediction raises) leaves the shared schedule as it was before the      *)
(* call and releases the lock, and no broadcast is sent for it: after the  *)
(* failed update the state does not hold the schedule of that request.     *)
(***************************************************************************)
C30_FailedUpdateLeavesState ==
    \A r \in DOMAIN req_kind :
        FailedUpdate(r) =>
            /\ digital_twin_state.schedule.source # r
            /\ state_lock # r
            /\ sent_to[r] = 0 /\ message[r] = NoMessage

=============================================================================
